---- MODULE Spec2Model ----
(***************************************************************************)
(* Model of the PDF extraction pipeline of Nordicsecure:                   *)
(*   backend/app/services/document_service.py  (DocumentService)           *)
(*   backend/ingest.py                         (ingest_single_pdf)         *)
(*                                                                         *)
(* Text is a sequence of one-character strings.  Spec is parse_pdf as a    *)
(* step machine (one action per statement group of the method), with the   *)
(* PDF reader, the rasteriser and the OCR engine as inputs fixed at the    *)
(* call.  SpecFields applies _build_key_values to bounded invoice texts.   *)
(***************************************************************************)
EXTENDS Integers, Sequences, FiniteSets, TLC

VARIABLES
    installed,      \* the Python packages present in the environment
    mod,            \* module globals PyPDF2 / convert_from_bytes / pytesseract
    pc,             \* position inside parse_pdf
    caller,         \* "direct" or "ingest" (ingest_single_pdf)
    doc,            \* the document behind the bytes handed to parse_pdf
    max_pages,      \* argument max_pages (None or >= 1)
    strategy,       \* keyword argument sampling_strategy ("absent" if not passed)
    page_count,     \* local page_count
    pages,          \* local pages
    raw_text,       \* local raw_text
    idx,            \* loop index of the digital loop / the OCR loop
    ocr_pages,      \* local pages of _extract_with_ocr
    digital,        \* pages and raw_text as the digital loop left them
    extractLog,     \* page indices extract_text was called on, in order
    ocrLog,         \* image indices image_to_string was called on, in order
    used_ocr,       \* _extract_with_ocr was entered
    result,         \* the dictionary parse_pdf returned
    error,          \* the exception parse_pdf raised
    ingest,         \* what ingest_single_pdf returned
    stored,         \* chunks handed to store_document by ingest_single_pdf
    ftext,          \* text handed to _build_key_values
    fpc,            \* position of the field extraction
    key_values,     \* key_values returned by _build_key_values
    confidences,    \* key_values_confidence returned by _build_key_values
    language,       \* detected language returned by _build_key_values
    tpages,         \* pages handed to _extract_tables
    tpc,            \* position of the table extraction
    tables,         \* tables returned by _extract_tables
    chunk_text,     \* argument text of _find_best_matching_line
    query_text,     \* argument query_text of _find_best_matching_line
    cpc,            \* position of the line matching
    cite,           \* (line_number, matched_line_text) it returned
    select_args,    \* total_pages, max_pages and strategy given to the page sampler
    spc,            \* position of the page selection
    indices,        \* the 0-based page indices the sampler returned
    store_args,     \* text and pages given to store_document
    backend,        \* embedding model, chromadb module, collection; whether add succeeds
    collection,     \* the chunks in the ChromaDB collection, in the order added
    store_result,   \* what store_document returned or raised
    stpc,           \* position of store_document
    pdf_files,      \* the PDF files batch_ingest found, sorted
    file_idx,       \* the 1-based position of the file batch_ingest handles next
    stats,          \* the statistics batch_ingest accumulates and returns
    attempted,      \* the positions ingest_single_pdf was called with, in call order
    failed_files,   \* the entries written to failed_files.log
    log_writable,   \* failed_files.log can be opened for appending
    bpc,            \* position of batch_ingest
    cancelled,      \* the caller has raised its cancellation signal
    amount_str,     \* the amount string handed to _normalize_amount
    renormalized,   \* the results of the successive _normalize_amount calls
    apc,            \* position of the amount normalization
    llm_call,       \* the function called (classify_document or extract_author_title) and its max_retries
    attempt,        \* loop variable attempt of the retry loop
    responses,      \* what the LLM answered to each request sent, in order
    llm_result,     \* the record the function returned
    lpc,            \* position of the retry loop
    file_kind,      \* what reading and parsing the file of process_file ends in
    move_fails,     \* whether safe_move_file raises for this file
    file_at,        \* the folder the file is in
    moved,          \* how many times the file was moved
    audit_log,      \* self.audit_log of the TriageService
    trpc,           \* position of process_file
    fs_call,        \* the function called (safe_rename_file or safe_move_file), where the source file is, and whether the file system refuses the rename
    listing,        \* the names stem.suffix, stem_1.suffix, ... that exist in the target directory before the call
    counter,        \* local counter of the collision loop
    target_path,    \* local target_path, as the number k of stem_k.suffix (0 for stem.suffix)
    fs_result,      \* the path returned and whether the file was placed there
    clobbered,      \* whether the rename landed on a file that existed
    fspc,           \* position of safe_rename_file / safe_move_file
    clock,          \* datetime.utcnow() in whole seconds
    md5,            \* hashlib.md5(text).hexdigest()[:8] of every text, as a number
    issued,         \* the ids_list of every store_document call made, in order
    par_calls,      \* the document and max_pages of every invocation of parse_pdf
    par_pc,         \* where every invocation is in parse_pdf
    frames,         \* the local variables of parse_pdf, one frame per call
    par_out         \* what every invocation returned or raised

parseVars == <<installed, mod, pc, caller, doc, max_pages, strategy, page_count,
               pages, raw_text, idx, ocr_pages, digital, extractLog, ocrLog,
               used_ocr, result, error, ingest, stored>>
fieldVars == <<ftext, fpc, key_values, confidences, language>>
tableVars == <<tpages, tpc, tables>>
citeVars == <<chunk_text, query_text, cpc, cite>>
selectVars == <<select_args, spc, indices>>
storeVars == <<store_args, backend, collection, store_result, stpc>>
batchVars == <<pdf_files, file_idx, stats, attempted, failed_files, log_writable, bpc>>
cancelVars == <<cancelled>>
amountVars == <<amount_str, renormalized, apc>>
llmVars == <<llm_call, attempt, responses, llm_result, lpc>>
triageVars == <<file_kind, move_fails, file_at, moved, audit_log, trpc>>
fsVars == <<fs_call, listing, counter, target_path, fs_result, clobbered, fspc>>
idVars == <<clock, md5, issued>>
parVars == <<par_calls, par_pc, frames, par_out>>
libVars == <<tableVars, citeVars, selectVars, storeVars, batchVars, cancelVars, amountVars, llmVars, triageVars, fsVars, idVars, parVars>>
vars == <<parseVars, fieldVars, libVars>>

\* -------------------------------------------------------------------------
\* Bounds of the model
MaxPages == 3
MaxBudget == 3

\* -------------------------------------------------------------------------
\* Program constants
MinTextLen == 100
TestPages == 10
TestBudget == 5

None == 0 - 1
NoValue == <<"None">>

\* -------------------------------------------------------------------------
\* Characters and strings
Min(S) == CHOOSE x \in S : \A y \in S : x <= y
Max(S) == CHOOSE x \in S : \A y \in S : x >= y

Rep(c, n) == [k \in 1..n |-> c]

IsAlpha(c) == c \in {"a", "b", "c", "d", "e", "f", "g", "h", "i", "j", "k", "l", "m",
                     "n", "o", "p", "q", "r", "s", "t", "u", "v", "w", "x", "y", "z",
                     "A", "B", "C", "D", "E", "F", "G", "H", "I", "J", "K", "L", "M",
                     "N", "O", "P", "Q", "R", "S", "T", "U", "V", "W", "X", "Y", "Z"}
IsDigit(c) == c \in {"0", "1", "2", "3", "4", "5", "6", "7", "8", "9"}
IsSpace(c) == c \in {" ", "\n", "\t", "\r"}

\* str.strip()
Strip(s) ==
    IF \A k \in 1..Len(s) : IsSpace(s[k]) THEN <<>>
    ELSE LET first == CHOOSE k \in 1..Len(s) :
                          ~IsSpace(s[k]) /\ \A j \in 1..(k - 1) : IsSpace(s[j])
             last == CHOOSE k \in 1..Len(s) :
                          ~IsSpace(s[k]) /\ \A j \in (k + 1)..Len(s) : IsSpace(s[j])
         IN  SubSeq(s, first, last)

AlphaCount(s) == Cardinality({k \in 1..Len(s) : IsAlpha(s[k])})

\* "\n".join(texts)
RECURSIVE JoinNl(_)
JoinNl(texts) ==
    IF texts = <<>> THEN <<>>
    ELSE IF Len(texts) = 1 THEN texts[1]
    ELSE texts[1] \o <<"\n">> \o JoinNl(Tail(texts))

\* -------------------------------------------------------------------------
\* _is_likely_scanned
IsLikelyScannedTrimmedRatio(text) ==
    \/ text = <<>>
    \/ Len(Strip(text)) < MinTextLen
    \/ 2 * AlphaCount(text) < Len(Strip(text))

IsLikelyScanned(text) ==
    \/ text = <<>>
    \/ Len(Strip(text)) < MinTextLen
    \/ 2 * AlphaCount(text) < Len(text)

\* -------------------------------------------------------------------------
\* Module import: PyPDF2, pdf2image and pytesseract are imported in one try
\* block; one ImportError sets all three names to None.
Packages == {"PyPDF2", "pdf2image", "pytesseract"}

ImportModule(inst) ==
    IF Packages \subseteq inst
    THEN [PyPDF2 |-> TRUE, convert_from_bytes |-> TRUE, pytesseract |-> TRUE]
    ELSE [PyPDF2 |-> FALSE, convert_from_bytes |-> FALSE, pytesseract |-> FALSE]

\* -------------------------------------------------------------------------
\* Input documents.  A page of the reader answers extract_text() with an
\* exception, with None or with a text; the text of page k carries k extra
\* characters so that every page of a document is recognisable.
DigitalKinds == {"raise", "none", "blank", "short", "long", "digits", "half"}

DigitalText(kind, k) ==
    CASE kind = "blank"  -> <<" ", "\n", " ">>
      [] kind = "short"  -> Rep("a", (MinTextLen \div 2) - 10 + k)
      [] kind = "long"   -> Rep("a", MinTextLen + 20 + k)
      [] kind = "digits" -> Rep("1", MinTextLen + 20 + k)
      [] kind = "half"   -> Rep("a", (MinTextLen \div 2) + k) \o Rep("1", (MinTextLen \div 2) + k)
      [] OTHER           -> <<>>

OcrKinds == {"blank", "short", "long"}

OcrText(kind, k) ==
    CASE kind = "blank"  -> <<" ", "\n">>
      [] kind = "short"  -> Rep("b", (MinTextLen \div 2) - 10 + k)
      [] OTHER           -> Rep("b", MinTextLen + 20 + k)

\* a document of n pages, all of kind base except page sp (1-based, 0: none)
\* which is of kind spKind
MkDoc(kind, n, base, sp, spKind, ocrKind, ocrFail) ==
    [kind |-> kind,
     pages |-> [k \in 1..n |-> IF k = sp THEN spKind ELSE base],
     ocrKind |-> ocrKind,
     ocrFail |-> ocrFail]

OcrFails == {"none", "convert", "tesseract"}

SmallDocs ==
    {MkDoc("ok", n, base, sp, spKind, ok, of) :
        n \in 0..MaxPages, base \in DigitalKinds \ {"raise", "none"},
        sp \in 0..MaxPages, spKind \in {"raise", "none", "long"},
        ok \in OcrKinds, of \in OcrFails}

TestDocs ==
    {MkDoc("ok", TestPages, base, 0, base, ok, "none") :
        base \in {"long", "blank"}, ok \in {"long"}}

BadDocs ==
    {MkDoc(kind, n, "long", 0, "long", "long", "none") :
        kind \in {"invalid", "encrypted"}, n \in {0, 1}}

Docs == SmallDocs \cup TestDocs \cup BadDocs

Budgets == {None} \cup (1..MaxBudget) \cup {TestBudget}
Strategies == {"absent", "linear", "random"}

\* -------------------------------------------------------------------------
\* Exceptions raised by parse_pdf
Err(type, msg) == [type |-> type, msg |-> msg]
NoError == Err("none", "none")
NoResult == [raw_text |-> <<>>, pages |-> <<>>, pages_count |-> None]

PageNumbers(ps) == [k \in 1..Len(ps) |-> ps[k].page_number]
PageTexts(ps) == [k \in 1..Len(ps) |-> ps[k].text]

\* -------------------------------------------------------------------------
\* the library operations are not in use
TablesIdle == tpages = <<>> /\ tpc = "off" /\ tables = <<>>
NoCite == [line_number |-> 0, line_text |-> <<>>]
CiteIdle == chunk_text = <<>> /\ query_text = <<>> /\ cpc = "off" /\ cite = NoCite
NoArgs == [total_pages |-> 0, max_pages |-> None, strategy |-> <<>>]
SelectIdle == select_args = NoArgs /\ spc = "off" /\ indices = <<>>
NoStore == [chunks_stored |-> 0, error |-> NoError]
StoreIdle ==
    /\ store_args = [text |-> <<>>, pages |-> <<>>]
    /\ backend = [embedding_model |-> TRUE, chromadb |-> TRUE, collection |-> TRUE,
                  add |-> TRUE]
    /\ collection = <<>>
    /\ store_result = NoStore
    /\ stpc = "off"
NoStats == [total_files |-> 0, successful |-> 0, failed |-> 0, skipped |-> 0,
            results |-> <<>>]
BatchIdle ==
    /\ pdf_files = <<>>
    /\ file_idx = 0
    /\ stats = NoStats
    /\ attempted = <<>>
    /\ failed_files = <<>>
    /\ log_writable = TRUE
    /\ bpc = "off"
CancelIdle == cancelled = FALSE
AmountIdle == amount_str = <<>> /\ renormalized = <<>> /\ apc = "off"
NoAnswer == [ok |-> FALSE, reason |-> "none"]
LlmIdle ==
    /\ llm_call = [fn |-> "none", max_retries |-> 0]
    /\ attempt = 0
    /\ responses = <<>>
    /\ llm_result = NoAnswer
    /\ lpc = "off"
TriageIdle ==
    /\ file_kind = "none"
    /\ move_fails = FALSE
    /\ file_at = "source"
    /\ moved = 0
    /\ audit_log = <<>>
    /\ trpc = "off"
NoListing == [upto |-> 0, extra |-> {}]
FsIdle ==
    /\ fs_call = [fn |-> "none", source |-> None, os_fails |-> FALSE]
    /\ listing = NoListing
    /\ counter = 0
    /\ target_path = 0
    /\ fs_result = [path |-> None, success |-> FALSE]
    /\ clobbered = FALSE
    /\ fspc = "off"
IdIdle ==
    /\ clock = 0
    /\ md5 = <<>>
    /\ issued = <<>>
ParIdle ==
    /\ par_calls = <<>>
    /\ par_pc = <<>>
    /\ frames = <<>>
    /\ par_out = <<>>
LibIdle == TablesIdle /\ CiteIdle /\ SelectIdle /\ StoreIdle /\ BatchIdle /\ CancelIdle /\ AmountIdle /\ LlmIdle /\ TriageIdle /\ FsIdle /\ IdIdle /\ ParIdle

Init ==
    /\ installed \in SUBSET Packages
    /\ mod = ImportModule(installed)
    /\ pc = "idle"
    /\ caller = "direct"
    /\ doc = MkDoc("ok", 0, "long", 0, "long", "long", "none")
    /\ max_pages = None
    /\ strategy = "absent"
    /\ page_count = 0
    /\ pages = <<>>
    /\ raw_text = <<>>
    /\ idx = 0
    /\ ocr_pages = <<>>
    /\ digital = [pages |-> <<>>, raw_text |-> <<>>]
    /\ extractLog = <<>>
    /\ ocrLog = <<>>
    /\ used_ocr = FALSE
    /\ result = NoResult
    /\ error = NoError
    /\ ingest = [status |-> "none", reason |-> "none"]
    /\ stored = <<>>
    /\ ftext = <<>>
    /\ fpc = "off"
    /\ key_values = <<>>
    /\ confidences = <<>>
    /\ language = "none"
    /\ LibIdle

Fail(e) ==
    /\ pc' = "failed"
    /\ error' = e

\* parse_pdf(file, filename, max_pages): the signature has no
\* sampling_strategy parameter, a call that passes one raises TypeError.
Call ==
    /\ pc = "idle"
    /\ \E d \in Docs, m \in Budgets, s \in Strategies, c \in {"direct", "ingest"} :
        /\ c = "ingest" => (m = None /\ s = "absent")
        /\ doc' = d
        /\ max_pages' = m
        /\ strategy' = s
        /\ caller' = c
        /\ IF s # "absent"
           THEN Fail(Err("TypeError", "unexpected keyword argument"))
           ELSE IF ~mod.PyPDF2
           THEN Fail(Err("ImportError", "PyPDF2 is required"))
           ELSE /\ pc' = "open"
                /\ UNCHANGED error
    /\ UNCHANGED <<installed, mod, page_count, pages, raw_text, idx, ocr_pages,
                   digital, extractLog, ocrLog, used_ocr, result, ingest, stored>>
    /\ UNCHANGED <<fieldVars, libVars>>

\* The checks parse_pdf makes on the opened reader, in the order of the code:
\* PdfReader(...) raises, is_encrypted, len(pdf_reader.pages) == 0
OpenOutcomeEmptyFirst(d) ==
    IF d.kind = "invalid" THEN "Failed to parse PDF"
    ELSE IF Len(d.pages) = 0 THEN "PDF file is empty (0 pages)"
    ELSE IF d.kind = "encrypted" THEN "Cannot process encrypted PDF files"
    ELSE "ok"

OpenOutcome(d) ==
    IF d.kind = "invalid" THEN "Failed to parse PDF"
    ELSE IF d.kind = "encrypted" THEN "Cannot process encrypted PDF files"
    ELSE IF Len(d.pages) = 0 THEN "PDF file is empty (0 pages)"
    ELSE "ok"

OpenReader ==
    /\ pc = "open"
    /\ IF OpenOutcome(doc) # "ok"
       THEN /\ Fail(Err("ValueError", OpenOutcome(doc)))
            /\ UNCHANGED <<page_count, idx>>
       ELSE /\ page_count' = Len(doc.pages)
            /\ idx' = 0
            /\ pc' = "extract"
            /\ UNCHANGED error
    /\ UNCHANGED <<installed, mod, caller, doc, max_pages, strategy, pages, raw_text,
                   ocr_pages, digital, extractLog, ocrLog, used_ocr, result,
                   ingest, stored>>
    /\ UNCHANGED <<fieldVars, libVars>>

\* pages_to_extract = page_count if max_pages is None else min(max_pages, page_count)
PagesToExtract(count, m) == IF m = None THEN count ELSE Min({m, count})

\* page_text = page.extract_text() or "", and "" when extract_text raises
PageText(kind, i) ==
    IF kind \in {"raise", "none"} THEN <<>> ELSE DigitalText(kind, i)

\* pages.append({"page_number": i + 1, "text": page_text})
AppendPageSkipFailed(ps, kind, i) ==
    IF kind = "raise" THEN ps
    ELSE Append(ps, [page_number |-> i + 1, text |-> PageText(kind, i)])

AppendPage(ps, kind, i) ==
    Append(ps, [page_number |-> i + 1, text |-> PageText(kind, i)])

\* one iteration of: for i, page in enumerate(pdf_reader.pages[:pages_to_extract])
ExtractPage ==
    /\ pc = "extract"
    /\ idx < PagesToExtract(page_count, max_pages)
    /\ pages' = AppendPage(pages, doc.pages[idx + 1], idx)
    /\ raw_text' = raw_text \o PageText(doc.pages[idx + 1], idx) \o <<"\n">>
    /\ extractLog' = Append(extractLog, idx)
    /\ idx' = idx + 1
    /\ UNCHANGED <<installed, mod, pc, caller, doc, max_pages, strategy, page_count,
                   ocr_pages, digital, ocrLog, used_ocr, result, error, ingest, stored>>
    /\ UNCHANGED <<fieldVars, libVars>>

\* if self._is_likely_scanned(raw_text)
CheckScanned ==
    /\ pc = "extract"
    /\ idx >= PagesToExtract(page_count, max_pages)
    /\ digital' = [pages |-> pages, raw_text |-> raw_text]
    /\ pc' = IF IsLikelyScanned(raw_text) THEN "ocr" ELSE "build"
    /\ UNCHANGED <<installed, mod, caller, doc, max_pages, strategy, page_count, pages,
                   raw_text, idx, ocr_pages, extractLog, ocrLog, used_ocr, result,
                   error, ingest, stored>>
    /\ UNCHANGED <<fieldVars, libVars>>

\* _extract_with_ocr up to the loop: backend check and convert_from_bytes;
\* the rasteriser gives one image per page of the document
OcrStart ==
    /\ pc = "ocr"
    /\ used_ocr' = TRUE
    /\ IF ~mod.convert_from_bytes \/ ~mod.pytesseract
       THEN /\ Fail(Err("ValueError", "OCR is not available"))
            /\ UNCHANGED <<idx, ocr_pages>>
       ELSE IF doc.ocrFail = "convert"
       THEN /\ Fail(Err("ValueError", "Failed to extract text via OCR"))
            /\ UNCHANGED <<idx, ocr_pages>>
       ELSE /\ idx' = 0
            /\ ocr_pages' = <<>>
            /\ pc' = "ocr_page"
            /\ UNCHANGED error
    /\ UNCHANGED <<installed, mod, caller, doc, max_pages, strategy, page_count, pages,
                   raw_text, digital, extractLog, ocrLog, result, ingest, stored>>
    /\ UNCHANGED <<fieldVars, libVars>>

\* images_to_process = images if max_pages is None else images[:max_pages]
ImagesToProcessAll(images, m) == images

ImagesToProcess(images, m) == IF m = None THEN images ELSE Min({m, images})

\* one iteration of: for i, image in enumerate(images_to_process)
OcrPage ==
    /\ pc = "ocr_page"
    /\ idx < ImagesToProcess(Len(doc.pages), max_pages)
    /\ ocrLog' = Append(ocrLog, idx)
    /\ IF doc.ocrFail = "tesseract"
       THEN /\ Fail(Err("ValueError", "Failed to extract text via OCR"))
            /\ UNCHANGED <<idx, ocr_pages>>
       ELSE /\ ocr_pages' = Append(ocr_pages, [page_number |-> idx + 1,
                                               text |-> OcrText(doc.ocrKind, idx)])
            /\ idx' = idx + 1
            /\ UNCHANGED <<pc, error>>
    /\ UNCHANGED <<installed, mod, caller, doc, max_pages, strategy, page_count, pages,
                   raw_text, digital, extractLog, used_ocr, result, ingest, stored>>
    /\ UNCHANGED <<fieldVars, libVars>>

\* return pages, raw_text;  pages, raw_text = ...;  page_count = len(pages)
OcrReturn ==
    /\ pc = "ocr_page"
    /\ idx >= ImagesToProcess(Len(doc.pages), max_pages)
    /\ pages' = ocr_pages
    /\ raw_text' = JoinNl(PageTexts(ocr_pages))
    /\ page_count' = Len(ocr_pages)
    /\ pc' = "build"
    /\ UNCHANGED <<installed, mod, caller, doc, max_pages, strategy, idx, ocr_pages,
                   digital, extractLog, ocrLog, used_ocr, result, error, ingest, stored>>
    /\ UNCHANGED <<fieldVars, libVars>>

\* result = {...}; return result
Return ==
    /\ pc = "build"
    /\ result' = [raw_text |-> Strip(raw_text), pages |-> pages, pages_count |-> page_count]
    /\ pc' = "done"
    /\ UNCHANGED <<installed, mod, caller, doc, max_pages, strategy, page_count, pages,
                   raw_text, idx, ocr_pages, digital, extractLog, ocrLog, used_ocr,
                   error, ingest, stored>>
    /\ UNCHANGED <<fieldVars, libVars>>

\* ingest_single_pdf after parse_pdf: an exception of parse_pdf or of
\* store_document is caught and reported, an empty raw_text is reported as
\* "No text content", anything else is stored page by page.
IngestOutcomeNoEmptyCheck(failed, e, text, storeOk) ==
    IF failed THEN [status |-> "failed", reason |-> e.msg]
    ELSE IF ~storeOk THEN [status |-> "failed", reason |-> "ChromaDB storage failed"]
    ELSE [status |-> "success", reason |-> "none"]

IngestOutcome(failed, e, text, storeOk) ==
    IF failed THEN [status |-> "failed", reason |-> e.msg]
    ELSE IF Strip(text) = <<>> THEN [status |-> "failed", reason |-> "No text content"]
    ELSE IF ~storeOk THEN [status |-> "failed", reason |-> "ChromaDB storage failed"]
    ELSE [status |-> "success", reason |-> "none"]

\* ingest_single_pdf when check_file_size rejects the file: parse_pdf is not called
IngestSkip ==
    /\ pc = "idle"
    /\ pc' = "not_called"
    /\ caller' = "ingest"
    /\ ingest' = [status |-> "skipped", reason |-> "File too large"]
    /\ UNCHANGED <<installed, mod, doc, max_pages, strategy, page_count, pages, raw_text,
                   idx, ocr_pages, digital, extractLog, ocrLog, used_ocr, result, error,
                   stored>>
    /\ UNCHANGED <<fieldVars, libVars>>

IngestFinish ==
    /\ caller = "ingest"
    /\ pc \in {"done", "failed"}
    /\ ingest.status = "none"
    /\ \E storeOk \in BOOLEAN :
        /\ ingest' = IngestOutcome(pc = "failed", error, result.raw_text, storeOk)
        /\ stored' = IF ingest'.status = "success" THEN result.pages ELSE <<>>
    /\ UNCHANGED <<installed, mod, pc, caller, doc, max_pages, strategy, page_count,
                   pages, raw_text, idx, ocr_pages, digital, extractLog, ocrLog,
                   used_ocr, result, error>>
    /\ UNCHANGED <<fieldVars, libVars>>

\* The caller raises its cancellation signal while parse_pdf is between two
\* page iterations.  parse_pdf has no parameter for the signal and reads it
\* nowhere.
Cancel ==
    /\ pc \in {"extract", "ocr_page"}
    /\ ~cancelled
    /\ cancelled' = TRUE
    /\ UNCHANGED <<parseVars, fieldVars, tableVars, citeVars, selectVars, storeVars, batchVars, amountVars, llmVars, triageVars, fsVars, idVars, parVars>>

Next ==
    \/ Call
    \/ Cancel
    \/ IngestSkip
    \/ IngestFinish
    \/ OpenReader
    \/ ExtractPage
    \/ CheckScanned
    \/ OcrStart
    \/ OcrPage
    \/ OcrReturn
    \/ Return

Spec == Init /\ [][Next]_vars

TypeOK == pc \in {"idle", "not_called", "open", "extract", "ocr", "ocr_page", "build", "done", "failed"}

\* =========================================================================
\* Field extraction (_build_key_values and its detectors)

UpperChars == <<"A", "B", "C", "D", "E", "F", "G", "H", "I", "J", "K", "L", "M",
                "N", "O", "P", "Q", "R", "S", "T", "U", "V", "W", "X", "Y", "Z", "Ö">>
LowerChars == <<"a", "b", "c", "d", "e", "f", "g", "h", "i", "j", "k", "l", "m",
                "n", "o", "p", "q", "r", "s", "t", "u", "v", "w", "x", "y", "z", "ö">>
LowerMap == [c \in {UpperChars[k] : k \in DOMAIN UpperChars} |->
                LowerChars[CHOOSE k \in DOMAIN UpperChars : UpperChars[k] = c]]
UpperMap == [c \in {LowerChars[k] : k \in DOMAIN LowerChars} |->
                UpperChars[CHOOSE k \in DOMAIN LowerChars : LowerChars[k] = c]]

LowerCh(c) == IF c \in DOMAIN LowerMap THEN LowerMap[c] ELSE c
UpperCh(c) == IF c \in DOMAIN UpperMap THEN UpperMap[c] ELSE c

\* str.lower(), str.upper()
Lower(s) == [k \in 1..Len(s) |-> LowerCh(s[k])]
Upper(s) == [k \in 1..Len(s) |-> UpperCh(s[k])]

\* sub in s
StartsAt(s, sub, i) ==
    /\ i + Len(sub) - 1 <= Len(s)
    /\ \A k \in 1..Len(sub) : s[i + k - 1] = sub[k]
Contains(s, sub) == \E i \in 1..(Len(s) - Len(sub) + 1) : StartsAt(s, sub, i)

\* s.replace(" ", ""): the characters of s that are not c
RECURSIVE Without(_, _)
Without(s, c) ==
    IF s = <<>> THEN <<>>
    ELSE IF Head(s) = c THEN Without(Tail(s), c)
    ELSE <<Head(s)>> \o Without(Tail(s), c)

\* s.replace(c, d) for single characters
ReplaceCh(s, c, d) == [k \in 1..Len(s) |-> IF s[k] = c THEN d ELSE s[k]]

\* s.split(c) for a set of single-character separators
RECURSIVE SplitAt(_, _, _)
SplitAt(s, seps, cur) ==
    IF s = <<>> THEN <<cur>>
    ELSE IF Head(s) \in seps THEN <<cur>> \o SplitAt(Tail(s), seps, <<>>)
    ELSE SplitAt(Tail(s), seps, Append(cur, Head(s)))
Split(s, seps) == SplitAt(s, seps, <<>>)

RECURSIVE Concat(_)
Concat(parts) == IF parts = <<>> THEN <<>> ELSE Head(parts) \o Concat(Tail(parts))

\* -------------------------------------------------------------------------
\* Regular expressions with the matching order of Python's re: Ends gives the
\* match states reachable from st in the order backtracking tries them, so
\* its first element is the match re reports at that position.
Digits == {"0", "1", "2", "3", "4", "5", "6", "7", "8", "9"}
Letters == {LowerChars[k] : k \in 1..26} \cup {UpperChars[k] : k \in 1..26}
WordChars == Letters \cup Digits \cup {"_", "ö", "Ö"}
Spaces == {" ", "\n", "\t", "\r"}

Set(cs) == [t |-> "set", cs |-> cs]
Cat(rs) == [t |-> "cat", rs |-> rs]
Alt(rs) == [t |-> "alt", rs |-> rs]
Times(r, lo, hi) == [t |-> "rep", r |-> r, lo |-> lo, hi |-> hi]
Opt(r) == Times(r, 0, 1)
Star(r) == Times(r, 0, None)
Grp(r) == [t |-> "grp", r |-> r]
WordBoundary == [t |-> "wb"]
\* a literal, and a literal under re.I
Lit(str) == Cat([k \in 1..Len(str) |-> Set({str[k]})])
LitI(str) == Cat([k \in 1..Len(str) |-> Set({LowerCh(str[k]), UpperCh(str[k])})])

IsWordAt(s, i) == i >= 1 /\ i <= Len(s) /\ s[i] \in WordChars

RECURSIVE Ends(_, _, _), EndsCat(_, _, _, _), CatOver(_, _, _, _, _),
          EndsAlt(_, _, _, _), EndsRep(_, _, _, _, _), RepOver(_, _, _, _, _, _, _)
Ends(r, s, st) ==
    CASE r.t = "set" ->
            IF st.pos <= Len(s) /\ s[st.pos] \in r.cs
            THEN <<[st EXCEPT !.pos = st.pos + 1]>> ELSE <<>>
      [] r.t = "cat" -> EndsCat(r.rs, 1, s, st)
      [] r.t = "alt" -> EndsAlt(r.rs, 1, s, st)
      [] r.t = "rep" -> EndsRep(r.r, r.lo, r.hi, s, st)
      [] r.t = "grp" ->
            LET es == Ends(r.r, s, st)
            IN  [k \in 1..Len(es) |-> [pos |-> es[k].pos, gs |-> st.pos, ge |-> es[k].pos]]
      [] r.t = "wb" ->
            IF IsWordAt(s, st.pos - 1) # IsWordAt(s, st.pos) THEN <<st>> ELSE <<>>

EndsCat(rs, k, s, st) ==
    IF k > Len(rs) THEN <<st>>
    ELSE CatOver(rs, k, s, Ends(rs[k], s, st), 1)

CatOver(rs, k, s, es, j) ==
    IF j > Len(es) THEN <<>>
    ELSE EndsCat(rs, k + 1, s, es[j]) \o CatOver(rs, k, s, es, j + 1)

EndsAlt(rs, k, s, st) ==
    IF k > Len(rs) THEN <<>>
    ELSE Ends(rs[k], s, st) \o EndsAlt(rs, k + 1, s, st)

EndsRep(r, lo, hi, s, st) ==
    LET once == IF hi = 0 THEN <<>> ELSE Ends(r, s, st)
    IN  RepOver(r, lo, hi, s, once, 1, st.pos) \o (IF lo <= 0 THEN <<st>> ELSE <<>>)

RepOver(r, lo, hi, s, es, j, from) ==
    IF j > Len(es) THEN <<>>
    ELSE (IF es[j].pos > from
          THEN EndsRep(r, lo - 1, IF hi = None THEN None ELSE hi - 1, s, es[j])
          ELSE <<>>)
         \o RepOver(r, lo, hi, s, es, j + 1, from)

\* pattern.search(s): the leftmost match; group0 is the whole match, group1
\* the first capturing group
NoMatch == [found |-> FALSE, group0 |-> <<>>, group1 |-> <<>>]

RECURSIVE SearchFrom(_, _, _)
SearchFrom(r, s, i) ==
    IF i > Len(s) + 1 THEN NoMatch
    ELSE LET es == Ends(r, s, [pos |-> i, gs |-> 0, ge |-> 0])
         IN  IF es # <<>>
             THEN [found |-> TRUE,
                   group0 |-> SubSeq(s, i, es[1].pos - 1),
                   group1 |-> SubSeq(s, es[1].gs, es[1].ge - 1)]
             ELSE SearchFrom(r, s, i + 1)
Search(r, s) == SearchFrom(r, s, 1)

\* -------------------------------------------------------------------------
\* DATE_PATTERN, AMOUNT_PATTERN, KNOWN_CURRENCIES
DateSep == Set({"/", ".", "-"})
Digit == Set(Digits)

DATE_PATTERN ==
    Cat(<<WordBoundary,
          Grp(Alt(<<Cat(<<Times(Digit, 4, 4), DateSep, Times(Digit, 1, 2), DateSep,
                          Times(Digit, 1, 2)>>),
                    Cat(<<Times(Digit, 1, 2), DateSep, Times(Digit, 1, 2), DateSep,
                          Times(Digit, 2, 4)>>)>>)),
          WordBoundary>>)

AMOUNT_PATTERN ==
    Grp(Alt(<<Cat(<<Opt(Set({"+", "-"})), Times(Digit, 1, 3),
                    Star(Cat(<<Set({" ", "."}), Times(Digit, 3, 3)>>)),
                    Cat(<<Set({".", ","}), Times(Digit, 2, 2)>>)>>),
              Cat(<<Times(Digit, 1, None), Set({".", ","}), Times(Digit, 2, 2)>>)>>))

KNOWN_CURRENCIES ==
    <<<<"S", "E", "K">>,
    <<"U", "S", "D">>,
    <<"E", "U", "R">>,
    <<"G", "B", "P">>,
    <<"N", "O", "K">>,
    <<"D", "K", "K">>,
    <<"C", "H", "F">>,
    <<"J", "P", "Y">>,
    <<"k", "r">>,
    <<"d", "k", "k">>,
    <<"n", "o", "k">>,
    <<"u", "s", "d">>,
    <<"e", "u", "r">>,
    <<"$">>,
    <<"€">>>>

\* -------------------------------------------------------------------------
\* Detectors.  A detector result is {"value": ..., "confidence": ...}; the
\* confidence is kept in hundredths (0.85 is 85), None is NoValue.
Cand(value, confidence) == [value |-> value, confidence |-> confidence]
Nothing == Cand(NoValue, 0)

\* _normalize_text: replace("\r\n", "\n").replace("\t", " ").strip()
RECURSIVE DropCr(_)
DropCr(s) ==
    IF s = <<>> THEN <<>>
    ELSE IF Len(s) >= 2 /\ s[1] = "\r" /\ s[2] = "\n" THEN <<"\n">> \o DropCr(SubSeq(s, 3, Len(s)))
    ELSE <<Head(s)>> \o DropCr(Tail(s))

NormalizeText(text) == Strip(ReplaceCh(DropCr(text), "\t", " "))

\* _split_into_lines: [line.strip() for line in text.split("\n") if line.strip()]
RECURSIVE StripNonBlank(_)
StripNonBlank(ls) ==
    IF ls = <<>> THEN <<>>
    ELSE IF Strip(Head(ls)) = <<>> THEN StripNonBlank(Tail(ls))
    ELSE <<Strip(Head(ls))>> \o StripNonBlank(Tail(ls))

SplitIntoLines(text) == StripNonBlank(Split(text, {"\n"}))

\* any(kw in line_lower for kw in keywords)
HasKeyword(line, keywords) ==
    LET line_lower == Lower(line)
    IN  \E k \in 1..Len(keywords) : Contains(line_lower, keywords[k])

\* -------------------------------------------------------------------------
\* _detect_invoice_number
IdChar == Set(Letters \cup Digits \cup {"-"})
Space == Set({" ", "\t", "\n", "\r"})
IdTail == <<Star(Space), Opt(Set({":", "#", "-"})), Star(Space), Grp(Times(IdChar, 3, None))>>

InvoicePatterns ==
    <<Cat(<<LitI(<<"i", "n", "v", "o", "i", "c", "e">>), Star(Space),
            Alt(<<LitI(<<"n", "o">>), LitI(<<"n", "u", "m", "b", "e", "r">>), LitI(<<"n", "r">>), Lit(<<"#">>)>>)>> \o IdTail),
      Cat(<<LitI(<<"i", "n", "v">>), Lit(<<".">>)>> \o IdTail),
      Cat(<<LitI(<<"f", "a", "k", "t", "u", "r", "a">>), Opt(Alt(<<LitI(<<"n", "r">>), LitI(<<"n", "u", "m", "m", "e", "r">>)>>))>> \o IdTail)>>

\* \bINV[-\s]?[A-Z0-9]{3,}\b under re.I
InvoiceFallback ==
    Cat(<<WordBoundary, LitI(<<"I", "N", "V">>), Opt(Set({"-", " ", "\t", "\n", "\r"})),
          Times(Set(Letters \cup Digits), 3, None), WordBoundary>>)

\* for pattern in keyword_patterns: match = pattern.search(line)
RECURSIVE FirstPattern(_, _, _)
FirstPattern(patterns, line, k) ==
    IF k > Len(patterns) THEN NoMatch
    ELSE LET m == Search(patterns[k], line)
         IN  IF m.found THEN m ELSE FirstPattern(patterns, line, k + 1)

RECURSIVE InvoiceScan(_, _)
InvoiceScan(lines, k) ==
    IF k > Len(lines) THEN Nothing
    ELSE LET line_lower == Lower(lines[k])
             m == FirstPattern(InvoicePatterns, lines[k], 1)
         IN  IF \/ Contains(line_lower, <<"i", "n", "v", "o", "i", "c", "e", " ", "d", "a", "t", "e">>)
                \/ Contains(line_lower, <<"f", "a", "k", "t", "u", "r", "a", "d", "a", "t", "u", "m">>)
             THEN InvoiceScan(lines, k + 1)
             ELSE IF m.found THEN Cand(m.group1, 90) ELSE InvoiceScan(lines, k + 1)

DetectInvoiceNumber(lines, full_text) ==
    LET anchored == InvoiceScan(lines, 1)
    IN  IF anchored.value # NoValue THEN anchored
        ELSE LET fallback == Search(InvoiceFallback, full_text)
             IN  IF fallback.found THEN Cand(fallback.group0, 50) ELSE Nothing

\* -------------------------------------------------------------------------
\* _detect_date
RECURSIVE DateScan(_, _, _)
DateScan(lines, keywords, k) ==
    IF k > Len(lines) THEN Nothing
    ELSE LET m == IF HasKeyword(lines[k], keywords)
                  THEN Search(DATE_PATTERN, lines[k]) ELSE NoMatch
         IN  IF m.found THEN Cand(m.group1, 85) ELSE DateScan(lines, keywords, k + 1)

DetectDate(lines, full_text, keywords) ==
    LET anchored == DateScan(lines, keywords, 1)
    IN  IF anchored.value # NoValue THEN anchored
        ELSE LET fallback == Search(DATE_PATTERN, full_text)
             IN  IF fallback.found THEN Cand(fallback.group1, 40) ELSE Nothing

\* -------------------------------------------------------------------------
\* _normalize_amount
NormalizeAmountFirstDotDecimal(amount) ==
    LET noSpace == Without(amount, " ")
        dotted == IF \E k \in 1..Len(noSpace) : noSpace[k] = ","
                  THEN ReplaceCh(noSpace, ",", ".") ELSE noSpace
        parts == Split(dotted, {"."})
    IN  IF Len(parts) > 2
        THEN parts[1] \o <<".">> \o Concat(Tail(parts))
        ELSE dotted

NormalizeAmount(amount) ==
    LET noSpace == Without(amount, " ")
        dotted == IF \E k \in 1..Len(noSpace) : noSpace[k] = ","
                  THEN ReplaceCh(noSpace, ",", ".") ELSE noSpace
        parts == Split(dotted, {"."})
    IN  IF Len(parts) > 2
        THEN Concat(SubSeq(parts, 1, Len(parts) - 1)) \o <<".">> \o parts[Len(parts)]
        ELSE dotted

\* int() of a digit string
DigitValue(c) == CHOOSE v \in 0..9 : <<"0", "1", "2", "3", "4", "5", "6", "7", "8", "9">>[v + 1] = c

RECURSIVE ToInt(_)
ToInt(ds) == IF ds = <<>> THEN 0 ELSE 10 * ToInt(SubSeq(ds, 1, Len(ds) - 1)) + DigitValue(ds[Len(ds)])

AllDigits(ds) == \A k \in 1..Len(ds) : ds[k] \in Digits

\* _amount_to_number: float(amount.replace(" ", "").replace(",", ".")), 0.0
\* when float() raises.  The number is kept in hundredths; amounts have at
\* most two decimals.
AmountToNumber(amount) ==
    LET normalized == ReplaceCh(Without(amount, " "), ",", ".")
        signed == normalized # <<>> /\ normalized[1] \in {"+", "-"}
        body == IF signed THEN Tail(normalized) ELSE normalized
        parts == Split(body, {"."})
        whole == parts[1]
        frac == IF Len(parts) = 2 THEN parts[2] ELSE <<>>
        valid == /\ Len(parts) <= 2
                 /\ AllDigits(whole) /\ AllDigits(frac)
                 /\ Len(whole) + Len(frac) > 0
                 /\ Len(frac) <= 2
        cents == 100 * ToInt(whole)
                 + (IF Len(frac) = 1 THEN 10 * ToInt(frac) ELSE ToInt(frac))
    IN  IF ~valid THEN 0
        ELSE IF signed /\ normalized[1] = "-" THEN 0 - cents ELSE cents

\* -------------------------------------------------------------------------
\* _detect_amount
RECURSIVE AmountCandidates(_, _, _)
AmountCandidates(lines, keywords, k) ==
    IF k > Len(lines) THEN <<>>
    ELSE LET m == IF HasKeyword(lines[k], keywords)
                  THEN Search(AMOUNT_PATTERN, lines[k]) ELSE NoMatch
             rest == AmountCandidates(lines, keywords, k + 1)
         IN  IF m.found
             THEN <<[value |-> NormalizeAmount(m.group1),
                     numeric |-> AmountToNumber(NormalizeAmount(m.group1))]>> \o rest
             ELSE rest

\* candidates.sort(key=numeric, reverse=prefer_highest); candidates[0]: the
\* sort is stable, so the head is the first candidate in line order among
\* those with the extreme numeric value
SortedHeadFirstInLineOrder(candidates, prefer_highest) == candidates[1]

SortedHead(candidates, prefer_highest) ==
    LET nums == {candidates[k].numeric : k \in 1..Len(candidates)}
        best == IF prefer_highest THEN Max(nums) ELSE Min(nums)
        first == CHOOSE k \in 1..Len(candidates) :
                    /\ candidates[k].numeric = best
                    /\ \A j \in 1..(k - 1) : candidates[j].numeric # best
    IN  candidates[first]

RECURSIVE AmountFallback(_, _)
AmountFallback(lines, k) ==
    IF k > Len(lines) THEN Nothing
    ELSE LET m == Search(AMOUNT_PATTERN, lines[k])
         IN  IF m.found THEN Cand(NormalizeAmount(m.group1), 30)
             ELSE AmountFallback(lines, k + 1)

DetectAmount(lines, keywords, prefer_highest) ==
    LET candidates == AmountCandidates(lines, keywords, 1)
    IN  IF candidates # <<>>
        THEN Cand(SortedHead(candidates, prefer_highest).value, 85)
        ELSE AmountFallback(lines, 1)

\* -------------------------------------------------------------------------
\* _find_currency_token, _normalize_currency, _detect_currency
RECURSIVE FindCurrencyFrom(_, _)
FindCurrencyFrom(text_lower, k) ==
    IF k > Len(KNOWN_CURRENCIES) THEN NoValue
    ELSE IF Contains(text_lower, Lower(KNOWN_CURRENCIES[k])) THEN KNOWN_CURRENCIES[k]
    ELSE FindCurrencyFrom(text_lower, k + 1)
FindCurrencyToken(text) == FindCurrencyFrom(Lower(text), 1)

NormalizeCurrency(token) ==
    LET upper == Upper(token)
    IN  IF upper = <<"$">> THEN <<"U", "S", "D">>
        ELSE IF upper = <<"€">> THEN <<"E", "U", "R">>
        ELSE IF upper = <<"K", "R">> THEN <<"S", "E", "K">>
        ELSE upper

RECURSIVE CurrencyScan(_, _)
CurrencyScan(lines, k) ==
    IF k > Len(lines) THEN Nothing
    ELSE LET token == FindCurrencyToken(lines[k])
         IN  IF token # NoValue THEN Cand(NormalizeCurrency(token), 80)
             ELSE CurrencyScan(lines, k + 1)

DetectCurrency(lines, full_text) ==
    LET anchored == CurrencyScan(lines, 1)
    IN  IF anchored.value # NoValue THEN anchored
        ELSE LET token == FindCurrencyToken(full_text)
             IN  IF token # NoValue THEN Cand(NormalizeCurrency(token), 50) ELSE Nothing

\* -------------------------------------------------------------------------
\* _detect_party_name
SupplierPatterns == <<LitI(<<"s", "u", "p", "p", "l", "i", "e", "r">>), LitI(<<"l", "e", "v", "e", "r", "a", "n", "t", "ö", "r">>)>>
CustomerPatterns == <<LitI(<<"c", "u", "s", "t", "o", "m", "e", "r">>), LitI(<<"k", "u", "n", "d">>)>>

MatchesAny(patterns, line) == \E k \in 1..Len(patterns) : Search(patterns[k], line).found

\* parts = re.split(r'[:\-]', line); parts[1].strip() when there is one
InlineName(line) ==
    LET parts == Split(line, {":", "-"})
    IN  IF Len(parts) > 1 THEN Strip(parts[2]) ELSE <<>>

PartyScanBestTier(lines, patterns, k) ==
    LET inline == {j \in 1..Len(lines) :
                      MatchesAny(patterns, lines[j]) /\ InlineName(lines[j]) # <<>>}
        next == {j \in 1..(Len(lines) - 1) : MatchesAny(patterns, lines[j])}
    IN  IF inline # {} THEN Cand(InlineName(lines[Min(inline)]), 80)
        ELSE IF next # {} THEN Cand(Strip(lines[Min(next) + 1]), 70)
        ELSE Nothing

RECURSIVE PartyScan(_, _, _)
PartyScan(lines, patterns, k) ==
    IF k > Len(lines) THEN Nothing
    ELSE IF ~MatchesAny(patterns, lines[k]) THEN PartyScan(lines, patterns, k + 1)
    ELSE IF InlineName(lines[k]) # <<>> THEN Cand(InlineName(lines[k]), 80)
    ELSE IF k + 1 <= Len(lines) THEN Cand(Strip(lines[k + 1]), 70)
    ELSE PartyScan(lines, patterns, k + 1)

DetectPartyName(lines, patterns, fallback_index) ==
    LET scanned == PartyScan(lines, patterns, 1)
    IN  IF scanned.value # NoValue THEN scanned
        ELSE IF fallback_index < Len(lines) THEN Cand(Strip(lines[fallback_index + 1]), 30)
        ELSE Nothing

\* -------------------------------------------------------------------------
\* _clamp_confidence: max(0.0, min(1.0, round(value, 2))), in hundredths
ClampConfidence(value) == Max({0, Min({100, value})})

\* _detect_language
SwedishKeywords ==
    <<<<"f", "a", "k", "t", "u", "r", "a">>,
    <<"b", "e", "l", "o", "p", "p">>,
    <<"f", "ö", "r", "f", "a", "l", "l", "o", "d", "a", "t", "u", "m">>,
    <<"o", "r", "g", ".", "n", "r">>,
    <<"k", "u", "n", "d", "n", "u", "m", "m", "e", "r">>,
    <<"l", "e", "v", "e", "r", "a", "n", "t", "ö", "r">>,
    <<"m", "o", "m", "s">>>>
EnglishKeywords ==
    <<<<"i", "n", "v", "o", "i", "c", "e">>,
    <<"a", "m", "o", "u", "n", "t">>,
    <<"d", "u", "e", " ", "d", "a", "t", "e">>,
    <<"c", "u", "s", "t", "o", "m", "e", "r">>,
    <<"s", "u", "p", "p", "l", "i", "e", "r">>,
    <<"t", "a", "x">>,
    <<"s", "u", "b", "t", "o", "t", "a", "l">>>>

Score(text_lower, keywords) ==
    Cardinality({k \in 1..Len(keywords) : Contains(text_lower, keywords[k])})

DetectLanguage(text) ==
    LET text_lower == Lower(text)
        swedish_score == Score(text_lower, SwedishKeywords)
        english_score == Score(text_lower, EnglishKeywords)
    IN  IF swedish_score = 0 /\ english_score = 0 THEN "unknown"
        ELSE IF swedish_score >= english_score THEN "sv" ELSE "en"

\* -------------------------------------------------------------------------
\* _build_key_values
DateKeywords ==
    <<<<"i", "n", "v", "o", "i", "c", "e", " ", "d", "a", "t", "e">>,
    <<"i", "s", "s", "u", "e", " ", "d", "a", "t", "e">>,
    <<"f", "a", "k", "t", "u", "r", "a", "d", "a", "t", "u", "m">>,
    <<"d", "a", "t", "u", "m">>>>
DueKeywords ==
    <<<<"d", "u", "e", " ", "d", "a", "t", "e">>,
    <<"d", "u", "e">>,
    <<"f", "ö", "r", "f", "a", "l", "l", "o", "d", "a", "t", "u", "m">>,
    <<"f", "o", "r", "f", "a", "l", "l", "o", "d", "a", "t", "u", "m">>>>
TotalKeywords ==
    <<<<"t", "o", "t", "a", "l">>,
    <<"t", "o", "t", "a", "l", "t">>,
    <<"a", "m", "o", "u", "n", "t", " ", "d", "u", "e">>,
    <<"t", "o", "t", "a", "l", " ", "b", "e", "l", "o", "p", "p">>>>
SubtotalKeywords ==
    <<<<"s", "u", "b", "t", "o", "t", "a", "l">>,
    <<"d", "e", "l", "s", "u", "m", "m", "a">>,
    <<"n", "e", "t", " ", "t", "o", "t", "a", "l">>>>
VatKeywords ==
    <<<<"v", "a", "t">>,
    <<"m", "o", "m", "s">>,
    <<"t", "a", "x">>>>

\* the nine detector calls
Detect(text) ==
    LET normalized_text == NormalizeText(text)
        lines == SplitIntoLines(normalized_text)
    IN  [invoice_number  |-> DetectInvoiceNumber(lines, normalized_text),
         invoice_date    |-> DetectDate(lines, normalized_text, DateKeywords),
         due_date        |-> DetectDate(lines, normalized_text, DueKeywords),
         total_amount    |-> DetectAmount(lines, TotalKeywords, TRUE),
         subtotal_amount |-> DetectAmount(lines, SubtotalKeywords, FALSE),
         vat_amount      |-> DetectAmount(lines, VatKeywords, FALSE),
         currency        |-> DetectCurrency(lines, normalized_text),
         supplier_name   |-> DetectPartyName(lines, SupplierPatterns, 0),
         customer_name   |-> DetectPartyName(lines, CustomerPatterns, 2)]

\* key_values = {...}
KeyValues(d) ==
    [invoice_number  |-> d.invoice_number.value,
     invoice_date    |-> d.invoice_date.value,
     due_date        |-> d.due_date.value,
     total_amount    |-> d.total_amount.value,
     subtotal_amount |-> d.subtotal_amount.value,
     vat_amount      |-> d.vat_amount.value,
     currency        |-> d.currency.value,
     supplier_name   |-> d.supplier_name.value,
     customer_name   |-> d.customer_name.value]

\* confidences = {...}
ConfidencesWithoutCustomer(d) ==
    [invoice_number  |-> ClampConfidence(d.invoice_number.confidence),
     invoice_date    |-> ClampConfidence(d.invoice_date.confidence),
     due_date        |-> ClampConfidence(d.due_date.confidence),
     total_amount    |-> ClampConfidence(d.total_amount.confidence),
     subtotal_amount |-> ClampConfidence(d.subtotal_amount.confidence),
     vat_amount      |-> ClampConfidence(d.vat_amount.confidence),
     currency        |-> ClampConfidence(d.currency.confidence),
     supplier_name   |-> ClampConfidence(d.supplier_name.confidence)]

Confidences(d) ==
    [invoice_number  |-> ClampConfidence(d.invoice_number.confidence),
     invoice_date    |-> ClampConfidence(d.invoice_date.confidence),
     due_date        |-> ClampConfidence(d.due_date.confidence),
     total_amount    |-> ClampConfidence(d.total_amount.confidence),
     subtotal_amount |-> ClampConfidence(d.subtotal_amount.confidence),
     vat_amount      |-> ClampConfidence(d.vat_amount.confidence),
     currency        |-> ClampConfidence(d.currency.confidence),
     supplier_name   |-> ClampConfidence(d.supplier_name.confidence),
     customer_name   |-> ClampConfidence(d.customer_name.confidence)]

\* -------------------------------------------------------------------------
\* Invoice texts handed to _build_key_values: up to MaxLines lines of one of
\* three vocabularies, joined by newlines
MaxLines == 3

AmountLines ==
    {<<"T", "o", "t", "a", "l", ":", " ", "1", "0", "0", ".", "0", "0">>,
     <<"S", "u", "b", "t", "o", "t", "a", "l", ":", " ", "8", "0", ".", "0", "0">>,
     <<"V", "A", "T", " ", "2", "5", "%", ":", " ", "2", "0", ".", "0", "0">>,
     <<"T", "o", "t", "a", "l", "t", " ", "1", " ", "2", "5", "0", ",", "5", "0", " ", "k", "r">>,
     <<"M", "o", "m", "s", " ", "+", "2", "0", ".", "0", "0">>,
     <<"P", "r", "i", "s", " ", "9", ",", "9", "9">>}

PartyLines ==
    {<<"S", "u", "p", "p", "l", "i", "e", "r">>,
     <<"S", "u", "p", "p", "l", "i", "e", "r", ":", " ", "A", "c", "m", "e">>,
     <<"A", "c", "m", "e", " ", "A", "B">>,
     <<"C", "u", "s", "t", "o", "m", "e", "r", " ", "-", " ", "B", "o", "b">>,
     <<"K", "u", "n", "d", ":">>,
     <<"L", "E", "V", "E", "R", "A", "N", "T", "Ö", "R", ":", " ", "N", "o", "r", "d">>}

InvoiceLines ==
    {<<"I", "n", "v", "o", "i", "c", "e", " ", "N", "o", ":", " ", "A", "-", "1", "7">>,
     <<"I", "n", "v", "o", "i", "c", "e", " ", "d", "a", "t", "e", ":", " ", "2", "0", "2", "4", "-", "1", "2", "-", "1", "9">>,
     <<"F", "a", "k", "t", "u", "r", "a", "\t", "#", "B", "9", "9", "\r">>,
     <<"r", "e", "f", " ", "I", "N", "V", "-", "5", "5", "5", " ", "E", "U", "R">>,
     <<"D", "u", "e", " ", "1", "/", "2", "/", "2", "4", " ", "$", "5">>,
     <<"H", "e", "l", "l", "o">>}

\* the texts of up to n different lines of a vocabulary, in any order
LinesUpTo(V, n) ==
    UNION {{ls \in [1..k -> V] : \A i, j \in 1..k : i < j => ls[i] # ls[j]} : k \in 1..n}

FieldTexts ==
    {JoinNl(ls) : ls \in LinesUpTo(AmountLines, MaxLines) \cup LinesUpTo(PartyLines, MaxLines)
                         \cup LinesUpTo(InvoiceLines, MaxLines)}
    \cup {<<>>, <<" ", "\n", "\t">>}

FieldsInit ==
    /\ installed = Packages
    /\ mod = ImportModule(installed)
    /\ pc = "idle"
    /\ caller = "direct"
    /\ doc = MkDoc("ok", 0, "long", 0, "long", "long", "none")
    /\ max_pages = None
    /\ strategy = "absent"
    /\ page_count = 0
    /\ pages = <<>>
    /\ raw_text = <<>>
    /\ idx = 0
    /\ ocr_pages = <<>>
    /\ digital = [pages |-> <<>>, raw_text |-> <<>>]
    /\ extractLog = <<>>
    /\ ocrLog = <<>>
    /\ used_ocr = FALSE
    /\ result = NoResult
    /\ error = NoError
    /\ ingest = [status |-> "none", reason |-> "none"]
    /\ stored = <<>>
    /\ ftext \in FieldTexts
    /\ fpc = "input"
    /\ key_values = <<>>
    /\ confidences = <<>>
    /\ language = "none"
    /\ LibIdle

\* key_values, confidences, language = self._build_key_values(raw_text)
BuildKeyValues ==
    /\ fpc = "input"
    /\ \E d \in {Detect(ftext)} :
        /\ key_values' = KeyValues(d)
        /\ confidences' = Confidences(d)
    /\ language' = DetectLanguage(NormalizeText(ftext))
    /\ fpc' = "done"
    /\ UNCHANGED ftext
    /\ UNCHANGED <<parseVars, libVars>>

FieldsNext == BuildKeyValues

SpecFields == FieldsInit /\ [][FieldsNext]_vars

\* =========================================================================
\* _extract_tables

\* parse_pdf and _build_key_values are not in use
ParseIdle ==
    /\ installed = Packages
    /\ mod = ImportModule(installed)
    /\ pc = "idle"
    /\ caller = "direct"
    /\ doc = MkDoc("ok", 0, "long", 0, "long", "long", "none")
    /\ max_pages = None
    /\ strategy = "absent"
    /\ page_count = 0
    /\ pages = <<>>
    /\ raw_text = <<>>
    /\ idx = 0
    /\ ocr_pages = <<>>
    /\ digital = [pages |-> <<>>, raw_text |-> <<>>]
    /\ extractLog = <<>>
    /\ ocrLog = <<>>
    /\ used_ocr = FALSE
    /\ result = NoResult
    /\ error = NoError
    /\ ingest = [status |-> "none", reason |-> "none"]
    /\ stored = <<>>

FieldsIdle ==
    /\ ftext = <<>>
    /\ fpc = "off"
    /\ key_values = <<>>
    /\ confidences = <<>>
    /\ language = "none"

\* bound: the lines and page breaks of a document handed to _extract_tables
MaxTableLines == 4

\* the strings between the runs of two or more whitespace characters:
\* re.split(r'\s{2,}', s)
RECURSIVE DropSpaces(_)
DropSpaces(s) == IF s # <<>> /\ IsSpace(Head(s)) THEN DropSpaces(Tail(s)) ELSE s

RECURSIVE SplitWideAt(_, _)
SplitWideAt(s, cur) ==
    IF s = <<>> THEN <<cur>>
    ELSE IF Len(s) >= 2 /\ IsSpace(s[1]) /\ IsSpace(s[2])
         THEN <<cur>> \o SplitWideAt(DropSpaces(s), <<>>)
    ELSE SplitWideAt(Tail(s), Append(cur, Head(s)))
SplitWide(s) == SplitWideAt(s, <<>>)

\* _looks_like_table_row
LooksLikeTableRow(line) ==
    LET trimmed == Strip(line)
        has_pipes == \E k \in 1..Len(trimmed) : trimmed[k] = "|"
        has_tabs == \E k \in 1..Len(trimmed) : trimmed[k] = "\t"
        multi_space_columns == Len(SplitWide(trimmed)) >= 3
    IN  /\ trimmed # <<>>
        /\ (has_pipes \/ has_tabs \/ multi_space_columns)

\* [col.strip() for col in cols if col.strip()]
RECURSIVE StripColumns(_)
StripColumns(cols) ==
    IF cols = <<>> THEN <<>>
    ELSE IF Strip(Head(cols)) = <<>> THEN StripColumns(Tail(cols))
    ELSE <<Strip(Head(cols))>> \o StripColumns(Tail(cols))

\* _split_row
SplitRow(line) ==
    IF \E k \in 1..Len(line) : line[k] = "|" THEN StripColumns(Split(line, {"|"}))
    ELSE IF \E k \in 1..Len(line) : line[k] = "\t" THEN StripColumns(Split(line, {"\t"}))
    ELSE StripColumns(SplitWide(Strip(line)))

\* flush_rows with one row already enough
FlushRowsAtLeastOne(tbls, current_rows, page_number) ==
    IF Len(current_rows) >= 1
    THEN Append(tbls, [page_number |-> page_number, rows |-> current_rows])
    ELSE tbls

\* flush_rows: the tables list after the pending rows were flushed
FlushRows(tbls, current_rows, page_number) ==
    IF Len(current_rows) >= 2
    THEN Append(tbls, [page_number |-> page_number, rows |-> current_rows])
    ELSE tbls

\* the loop over the lines of one page, and the flush after it
RECURSIVE PageTables(_, _, _, _)
PageTables(tbls, lines, current_rows, page_number) ==
    IF lines = <<>> THEN FlushRows(tbls, current_rows, page_number)
    ELSE IF LooksLikeTableRow(Head(lines))
         THEN PageTables(tbls, Tail(lines), Append(current_rows, SplitRow(Head(lines))),
                         page_number)
    ELSE PageTables(FlushRows(tbls, current_rows, page_number), Tail(lines), <<>>,
                    page_number)

\* the loop over the pages
RECURSIVE ExtractTablesFrom(_, _)
ExtractTablesFrom(tbls, ps) ==
    IF ps = <<>> THEN tbls
    ELSE ExtractTablesFrom(
             PageTables(tbls, Split(Head(ps).text, {"\n"}), <<>>, Head(ps).page_number),
             Tail(ps))

\* the lines of the documents, and the page break between two pages
TableLines ==
    {<<"a", "|", "b">>,
     <<"c", "\t", "d">>,
     <<"e", " ", " ", "f", " ", " ", "g">>,
     <<"h", " ", " ", "i">>,
     <<"p", "l", "a", "i", "n">>,
     <<" ">>}
PageBreak == <<"\f">>

\* the pages of a document given as lines and page breaks: each page's text is
\* its lines joined by newlines, its page_number its position
RECURSIVE PagesOfTokens(_, _, _)
PagesOfTokens(tokens, lines, number) ==
    IF tokens = <<>> THEN <<[page_number |-> number, text |-> JoinNl(lines)]>>
    ELSE IF Head(tokens) = PageBreak
         THEN <<[page_number |-> number, text |-> JoinNl(lines)]>>
              \o PagesOfTokens(Tail(tokens), <<>>, number + 1)
    ELSE PagesOfTokens(Tail(tokens), Append(lines, Head(tokens)), number)

TableDocs ==
    {PagesOfTokens(tokens, <<>>, 1) :
        tokens \in UNION {[1..k -> TableLines \cup {PageBreak}] : k \in 0..MaxTableLines}}

TablesInit ==
    /\ ParseIdle
    /\ FieldsIdle
    /\ tpages \in TableDocs
    /\ tpc = "input"
    /\ tables = <<>>
    /\ CiteIdle
    /\ SelectIdle
    /\ StoreIdle
    /\ BatchIdle
    /\ CancelIdle
    /\ AmountIdle
    /\ LlmIdle
    /\ TriageIdle
    /\ FsIdle
    /\ IdIdle
    /\ ParIdle

\* tables = self._extract_tables(pages)
ExtractTables ==
    /\ tpc = "input"
    /\ tables' = ExtractTablesFrom(<<>>, tpages)
    /\ tpc' = "done"
    /\ UNCHANGED tpages
    /\ UNCHANGED <<parseVars, fieldVars, citeVars, selectVars, storeVars, batchVars, cancelVars, amountVars, llmVars, triageVars, fsVars, idVars, parVars>>

TablesNext == ExtractTables

SpecTables == TablesInit /\ [][TablesNext]_vars

\* =========================================================================
\* _find_best_matching_line

\* bound: the lines of a chunk
MaxCiteLines == 3

\* set(s.split()): the maximal runs of characters that are not whitespace
Words(s) ==
    LET parts == Split(s, {" ", "\n", "\t", "\r"})
    IN  {parts[k] : k \in {j \in 1..Len(parts) : parts[j] # <<>>}}

Match(line_number, line_text) == [line_number |-> line_number, line_text |-> line_text]

\* the fallback loop counting only the lines that are not blank
FirstNonBlankRenumbered(lines, i, best_line_text) ==
    IF \A k \in 1..Len(lines) : Strip(lines[k]) = <<>> THEN Match(1, best_line_text)
    ELSE Match(1, Strip(lines[CHOOSE k \in 1..Len(lines) :
                                /\ Strip(lines[k]) # <<>>
                                /\ \A j \in 1..(k - 1) : Strip(lines[j]) = <<>>]))

\* the fallback loop: the first line that is not blank
RECURSIVE FirstNonBlank(_, _, _)
FirstNonBlank(lines, i, best_line_text) ==
    IF i > Len(lines) THEN Match(1, best_line_text)
    ELSE IF Strip(lines[i]) # <<>> THEN Match(i, Strip(lines[i]))
    ELSE FirstNonBlank(lines, i + 1, best_line_text)

\* the scoring loop without the test for the whole phrase
RECURSIVE ScanLinesNoPhrase(_, _, _, _, _, _)
ScanLinesNoPhrase(lines, query_lower, i, best_score, best_line_num, best_line_text) ==
    IF i > Len(lines)
    THEN IF best_score > 0 THEN Match(best_line_num, best_line_text)
         ELSE FirstNonBlank(lines, 1, best_line_text)
    ELSE IF Strip(lines[i]) = <<>>
         THEN ScanLinesNoPhrase(lines, query_lower, i + 1, best_score, best_line_num,
                                best_line_text)
    ELSE LET overlap == Cardinality(Words(query_lower) \cap Words(Lower(lines[i])))
         IN  IF overlap > best_score
             THEN ScanLinesNoPhrase(lines, query_lower, i + 1, overlap, i, Strip(lines[i]))
             ELSE ScanLinesNoPhrase(lines, query_lower, i + 1, best_score, best_line_num,
                                    best_line_text)

\* the scoring loop with a later line of equal overlap replacing the best
RECURSIVE ScanLinesLastWins(_, _, _, _, _, _)
ScanLinesLastWins(lines, query_lower, i, best_score, best_line_num, best_line_text) ==
    IF i > Len(lines)
    THEN IF best_score > 0 THEN Match(best_line_num, best_line_text)
         ELSE FirstNonBlank(lines, 1, best_line_text)
    ELSE IF Strip(lines[i]) = <<>>
         THEN ScanLinesLastWins(lines, query_lower, i + 1, best_score, best_line_num,
                                best_line_text)
    ELSE IF Contains(Lower(lines[i]), query_lower) THEN Match(i, Strip(lines[i]))
    ELSE LET overlap == Cardinality(Words(query_lower) \cap Words(Lower(lines[i])))
         IN  IF overlap >= best_score /\ overlap > 0
             THEN ScanLinesLastWins(lines, query_lower, i + 1, overlap, i, Strip(lines[i]))
             ELSE ScanLinesLastWins(lines, query_lower, i + 1, best_score, best_line_num,
                                    best_line_text)

\* the scoring loop from line i on, and what follows it
RECURSIVE ScanLines(_, _, _, _, _, _)
ScanLines(lines, query_lower, i, best_score, best_line_num, best_line_text) ==
    IF i > Len(lines)
    THEN IF best_score > 0 THEN Match(best_line_num, best_line_text)
         ELSE FirstNonBlank(lines, 1, best_line_text)
    ELSE IF Strip(lines[i]) = <<>>
         THEN ScanLines(lines, query_lower, i + 1, best_score, best_line_num, best_line_text)
    ELSE IF Contains(Lower(lines[i]), query_lower) THEN Match(i, Strip(lines[i]))
    ELSE LET overlap == Cardinality(Words(query_lower) \cap Words(Lower(lines[i])))
         IN  IF overlap > best_score
             THEN ScanLines(lines, query_lower, i + 1, overlap, i, Strip(lines[i]))
             ELSE ScanLines(lines, query_lower, i + 1, best_score, best_line_num,
                            best_line_text)

\* the text trimmed before it is split into lines
FindBestMatchingLineTrimmed(text, query) ==
    LET lines == Split(Strip(text), {"\n"})
    IN  ScanLines(lines, Lower(query), 1, 0, 1, lines[1])

FindBestMatchingLine(text, query) ==
    LET lines == Split(text, {"\n"})
    IN  ScanLines(lines, Lower(query), 1, 0, 1, lines[1])

CiteLines ==
    {<<"b", " ", "a">>,
     <<"x", "a", " ", "b", "x">>,
     <<"A", " ", "B", " ", "c">>,
     <<"c">>,
     <<" ", " ">>,
     <<>>,
     <<" ", "a", " ">>}
Queries ==
    {<<"a", " ", "b">>,
     <<"c">>,
     <<"a">>,
     <<>>,
     <<" ">>,
     <<"z">>,
     <<"B", " ", " ", "A">>}
CiteTexts == {JoinNl(ls) : ls \in UNION {[1..k -> CiteLines] : k \in 1..MaxCiteLines}}

CiteInit ==
    /\ ParseIdle
    /\ FieldsIdle
    /\ TablesIdle
    /\ chunk_text \in CiteTexts
    /\ query_text \in Queries
    /\ cpc = "input"
    /\ cite = NoCite
    /\ SelectIdle
    /\ StoreIdle
    /\ BatchIdle
    /\ CancelIdle
    /\ AmountIdle
    /\ LlmIdle
    /\ TriageIdle
    /\ FsIdle
    /\ IdIdle
    /\ ParIdle

\* line_number, matched_line = self._find_best_matching_line(doc_text, query_text)
FindLine ==
    /\ cpc = "input"
    /\ cite' = FindBestMatchingLine(chunk_text, query_text)
    /\ cpc' = "done"
    /\ UNCHANGED <<chunk_text, query_text>>
    /\ UNCHANGED <<parseVars, fieldVars, tableVars, selectVars, storeVars, batchVars, cancelVars, amountVars, llmVars, triageVars, fsVars, idVars, parVars>>

CiteNext == FindLine

SpecCite == CiteInit /\ [][CiteNext]_vars

\* =========================================================================
\* The page sampler, select(total_pages, max_pages, strategy)

\* bounds: the page counts and the page budgets the sampler is given
MaxTotalPages == 6
MaxSelectBudget == 5

LargeTestPages == 100

\* the indices 0 .. n-1 in order
FirstIndices(n) == [k \in 1..n |-> k - 1]

\* the elements of a set of numbers in ascending order
RECURSIVE SortedSeq(_)
SortedSeq(S) == IF S = {} THEN <<>> ELSE <<Min(S)>> \o SortedSeq(S \ {Min(S)})

\* start, middle and end in the order start, end, middle
SelectEndBeforeMiddle(total_pages, budget, name) ==
    IF budget = None THEN FirstIndices(total_pages)
    ELSE IF Lower(name) = <<"r", "a", "n", "d", "o", "m">>
         THEN IF total_pages <= 3 THEN FirstIndices(total_pages)
              ELSE SubSeq(<<0, total_pages - 1, (total_pages - 1) \div 2>>, 1, Min({budget, 3}))
    ELSE FirstIndices(Min({budget, total_pages}))

\* the middle page taken as total_pages / 2
SelectMiddleRoundedUp(total_pages, budget, name) ==
    IF budget = None THEN FirstIndices(total_pages)
    ELSE IF Lower(name) = <<"r", "a", "n", "d", "o", "m">>
         THEN IF total_pages <= 3 THEN FirstIndices(total_pages)
              ELSE SubSeq(SortedSeq({0, total_pages \div 2, total_pages - 1}), 1,
                          Min({budget, 3}))
    ELSE FirstIndices(Min({budget, total_pages}))

\* every strategy but "linear" taken as the start/middle/end sampler
SelectUnknownAsRandom(total_pages, budget, name) ==
    IF budget = None THEN FirstIndices(total_pages)
    ELSE IF Lower(name) # <<"l", "i", "n", "e", "a", "r">>
         THEN IF total_pages <= 3 THEN FirstIndices(total_pages)
              ELSE SubSeq(SortedSeq({0, (total_pages - 1) \div 2, total_pages - 1}), 1,
                          Min({budget, 3}))
    ELSE FirstIndices(Min({budget, total_pages}))

\* select: no budget gives all indices; "random" in any case gives all
\* indices of a document of up to 3 pages and else start, middle and end cut
\* to the budget; every other strategy gives the first min(budget, total)
Select(total_pages, budget, name) ==
    IF budget = None THEN FirstIndices(total_pages)
    ELSE IF Lower(name) = <<"r", "a", "n", "d", "o", "m">>
         THEN IF total_pages <= 3 THEN FirstIndices(total_pages)
              ELSE SubSeq(SortedSeq({0, (total_pages - 1) \div 2, total_pages - 1}), 1,
                          Min({budget, 3}))
    ELSE FirstIndices(Min({budget, total_pages}))

\* strategy strings; the last stands for a call that names no strategy
StrategyNames ==
    {<<"r", "a", "n", "d", "o", "m">>,
     <<"R", "A", "N", "D", "O", "M">>,
     <<"R", "a", "n", "d", "o", "m">>,
     <<"l", "i", "n", "e", "a", "r">>,
     <<"u", "n", "k", "n", "o", "w", "n">>,
     <<>>}
DefaultStrategy == <<"l", "i", "n", "e", "a", "r">>

SelectInputs ==
    [total_pages : (1..MaxTotalPages) \cup {TestPages, LargeTestPages},
     max_pages : {None} \cup (1..MaxSelectBudget),
     strategy : StrategyNames \cup {NoValue}]

SelectInit ==
    /\ ParseIdle
    /\ FieldsIdle
    /\ TablesIdle
    /\ CiteIdle
    /\ select_args \in SelectInputs
    /\ spc = "input"
    /\ indices = <<>>
    /\ StoreIdle
    /\ BatchIdle
    /\ CancelIdle
    /\ AmountIdle
    /\ LlmIdle
    /\ TriageIdle
    /\ FsIdle
    /\ IdIdle
    /\ ParIdle

\* indices = select(total_pages, max_pages, strategy); a call that names no
\* strategy gets the default
SelectPages ==
    /\ spc = "input"
    /\ indices' = Select(select_args.total_pages, select_args.max_pages,
                         IF select_args.strategy = NoValue THEN DefaultStrategy
                         ELSE select_args.strategy)
    /\ spc' = "done"
    /\ UNCHANGED select_args
    /\ UNCHANGED <<parseVars, fieldVars, tableVars, citeVars, storeVars, batchVars, cancelVars, amountVars, llmVars, triageVars, fsVars, idVars, parVars>>

SelectNext == SelectPages

SpecSelect == SelectInit /\ [][SelectNext]_vars

\* =========================================================================
\* store_document

\* bound: the pages given to store_document
MaxStorePages == 2

\* str(n) for n >= 0
DigitChars == <<"0", "1", "2", "3", "4", "5", "6", "7", "8", "9">>
RECURSIVE ToStr(_)
ToStr(n) ==
    IF n < 10 THEN <<DigitChars[n + 1]>>
    ELSE ToStr(n \div 10) \o <<DigitChars[(n % 10) + 1]>>

\* EMPTY_PAGE_PLACEHOLDER.format(page_num)
EmptyPagePlaceholder(page_num) ==
    <<"[", "E", "m", "p", "t", "y", " ", "p", "a", "g", "e", " ">> \o ToStr(page_num) \o <<"]">>

\* one chunk: the document text and its page metadata
Chunk(page_text, page_num, total) ==
    [document |-> page_text,
     metadata |-> [page_number |-> page_num, total_pages |-> total]]

\* the loop over the pages with blank pages left out
RECURSIVE PageChunksSkipBlank(_, _)
PageChunksSkipBlank(ps, total) ==
    IF ps = <<>> THEN <<>>
    ELSE IF Strip(Head(ps).text) = <<>> THEN PageChunksSkipBlank(Tail(ps), total)
    ELSE <<Chunk(Head(ps).text, Head(ps).page_number, total)>>
         \o PageChunksSkipBlank(Tail(ps), total)

\* the loop over the pages: one chunk per page, a blank page with the
\* placeholder text
RECURSIVE PageChunks(_, _)
PageChunks(ps, total) ==
    IF ps = <<>> THEN <<>>
    ELSE LET page_num == Head(ps).page_number
             page_text == IF Strip(Head(ps).text) = <<>> THEN EmptyPagePlaceholder(page_num)
                          ELSE Head(ps).text
         IN  <<Chunk(page_text, page_num, total)>> \o PageChunks(Tail(ps), total)

\* the legacy path: the whole text as one chunk without page metadata
TextChunk(text) ==
    [document |-> text,
     metadata |-> [page_number |-> None, total_pages |-> None]]

StoreTexts == {<<>>, <<" ", "\n">>, <<"a", "b">>}
StorePageNumbers == (1..MaxStorePages) \cup {TestPages}
StorePages == [page_number : StorePageNumbers, text : StoreTexts]
StoreInputs ==
    [text : {<<"a", "b">>},
     pages : UNION {[1..k -> StorePages] : k \in 0..MaxStorePages}]

StoreInit ==
    /\ ParseIdle
    /\ FieldsIdle
    /\ TablesIdle
    /\ CiteIdle
    /\ SelectIdle
    /\ store_args \in StoreInputs
    /\ backend \in [embedding_model : BOOLEAN, chromadb : BOOLEAN, collection : BOOLEAN,
                    add : BOOLEAN]
    /\ collection = <<>>
    /\ store_result = NoStore
    /\ stpc = "input"
    /\ BatchIdle
    /\ CancelIdle
    /\ AmountIdle
    /\ LlmIdle
    /\ TriageIdle
    /\ FsIdle
    /\ IdIdle
    /\ ParIdle

\* result = document_service.store_document(text, metadata, pages)
StoreDocument ==
    /\ stpc = "input"
    /\ stpc' = "done"
    /\ LET chunks == IF Len(store_args.pages) > 0
                     THEN PageChunks(store_args.pages, Len(store_args.pages))
                     ELSE <<TextChunk(store_args.text)>>
       IN  IF ~backend.embedding_model
           THEN /\ store_result' = [chunks_stored |-> 0,
                                    error |-> Err("RuntimeError", "Embedding model not initialized")]
                /\ UNCHANGED collection
           ELSE IF ~backend.chromadb
           THEN /\ store_result' = [chunks_stored |-> 0,
                                    error |-> Err("ImportError", "chromadb is required")]
                /\ UNCHANGED collection
           ELSE IF ~backend.collection
           THEN /\ store_result' = [chunks_stored |-> 0,
                                    error |-> Err("RuntimeError", "ChromaDB collection not initialized")]
                /\ UNCHANGED collection
           ELSE IF chunks = <<>>
           THEN /\ store_result' = [chunks_stored |-> 0,
                                    error |-> Err("ValueError", "No valid pages with text content found")]
                /\ UNCHANGED collection
           ELSE IF ~backend.add
           THEN /\ store_result' = [chunks_stored |-> 0,
                                    error |-> Err("RuntimeError", "ChromaDB storage failed")]
                /\ UNCHANGED collection
           ELSE /\ collection' = collection \o chunks
                /\ store_result' = [chunks_stored |-> Len(chunks), error |-> NoError]
    /\ UNCHANGED <<store_args, backend>>
    /\ UNCHANGED <<parseVars, fieldVars, tableVars, citeVars, selectVars, batchVars, cancelVars, amountVars, llmVars, triageVars, fsVars, idVars, parVars>>

StoreNext == StoreDocument

SpecStore == StoreInit /\ [][StoreNext]_vars

\* =========================================================================
\* batch_ingest

\* bound: the PDF files of the folder
MaxFiles == 4

\* What a file does to ingest_single_pdf: whether check_file_size accepts it
\* (it rejects a file that is too large and a file whose size cannot be
\* read), whether reading or parsing it raises (and what), the raw_text
\* parse_pdf returns, and whether store_document returns.
Good ==
    [size_ok |-> TRUE, failed |-> FALSE, e |-> NoError, text |-> <<"a", "b">>, storeOk |-> TRUE]
Oversize ==
    [size_ok |-> FALSE, failed |-> FALSE, e |-> NoError, text |-> <<"a", "b">>, storeOk |-> TRUE]
SizeUnreadable ==
    [size_ok |-> FALSE, failed |-> FALSE, e |-> Err("OSError", "Error checking file size"),
     text |-> <<"a", "b">>, storeOk |-> TRUE]
ParseError ==
    [size_ok |-> TRUE, failed |-> TRUE, e |-> Err("ValueError", "Failed to parse PDF"),
     text |-> <<>>, storeOk |-> TRUE]
EmptyText ==
    [size_ok |-> TRUE, failed |-> FALSE, e |-> NoError, text |-> <<" ", "\n">>, storeOk |-> TRUE]
StorageError ==
    [size_ok |-> TRUE, failed |-> FALSE, e |-> NoError, text |-> <<"a", "b">>, storeOk |-> FALSE]
FileKinds == {Good, Oversize, SizeUnreadable, ParseError, EmptyText, StorageError}

\* ingest_single_pdf(document_service, filepath) for the file at a position
IngestSinglePdf(filepath, file) ==
    IF ~file.size_ok
    THEN [status |-> "skipped", reason |-> "File too large", filepath |-> filepath]
    ELSE LET outcome == IngestOutcome(file.failed, file.e, file.text, file.storeOk)
         IN  [status |-> outcome.status, reason |-> outcome.reason, filepath |-> filepath]

\* what the file's handling writes to failed_files.log, rejected files left out
LogFailedFileNotSkipped(log, file_result, file, writable) ==
    IF file_result.status \in {"success", "skipped"} \/ ~writable THEN log
    ELSE Append(log, [filepath |-> file_result.filepath,
                      error |-> IF file_result.reason = "No text content"
                                THEN "No text content could be extracted"
                                ELSE file_result.reason])

\* what the file's handling writes to failed_files.log: check_file_size logs
\* the file it rejects, ingest_single_pdf logs an empty text and an exception;
\* log_failed_file writes nothing when the log cannot be written
LogFailedFile(log, file_result, file, writable) ==
    IF file_result.status = "success" \/ ~writable THEN log
    ELSE Append(log, [filepath |-> file_result.filepath,
                      error |-> IF file_result.status = "skipped"
                                THEN (IF file.e = NoError THEN "File too large"
                                      ELSE file.e.msg)
                                ELSE IF file_result.reason = "No text content"
                                THEN "No text content could be extracted"
                                ELSE file_result.reason])

\* the statistics update with skipped files left uncounted
UpdateStatsSkippedUncounted(st, file_result) ==
    [st EXCEPT !.results = Append(@, file_result),
               !.successful = IF file_result.status = "success" THEN @ + 1 ELSE @,
               !.failed = IF file_result.status = "failed" THEN @ + 1 ELSE @]

\* stats["results"].append(result) and the update of the three counters
UpdateStats(st, file_result) ==
    [st EXCEPT !.results = Append(@, file_result),
               !.successful = IF file_result.status = "success" THEN @ + 1 ELSE @,
               !.failed = IF file_result.status = "failed" THEN @ + 1 ELSE @,
               !.skipped = IF file_result.status = "skipped" THEN @ + 1 ELSE @]

BatchInit ==
    /\ ParseIdle
    /\ FieldsIdle
    /\ TablesIdle
    /\ CiteIdle
    /\ SelectIdle
    /\ StoreIdle
    /\ CancelIdle
    /\ AmountIdle
    /\ LlmIdle
    /\ TriageIdle
    /\ FsIdle
    /\ IdIdle
    /\ ParIdle
    /\ pdf_files \in UNION {[1..k -> FileKinds] : k \in 0..MaxFiles}
    /\ file_idx = 0
    /\ stats = NoStats
    /\ attempted = <<>>
    /\ failed_files = <<>>
    /\ log_writable \in BOOLEAN
    /\ bpc = "scan"

\* pdf_files = get_pdf_files(folder): no file returns the empty statistics,
\* otherwise the loop starts with the first file
BatchScan ==
    /\ bpc = "scan"
    /\ IF pdf_files = <<>>
       THEN /\ bpc' = "done"
            /\ UNCHANGED <<stats, file_idx>>
       ELSE /\ bpc' = "loop"
            /\ stats' = [NoStats EXCEPT !.total_files = Len(pdf_files)]
            /\ file_idx' = 1
    /\ UNCHANGED <<pdf_files, attempted, failed_files, log_writable>>
    /\ UNCHANGED <<parseVars, fieldVars, tableVars, citeVars, selectVars, storeVars, cancelVars, amountVars, llmVars, triageVars, fsVars, idVars, parVars>>

\* one iteration of the loop: ingest the file, append its result, count it
BatchFile ==
    /\ bpc = "loop"
    /\ file_idx <= Len(pdf_files)
    /\ LET file_result == IngestSinglePdf(file_idx, pdf_files[file_idx])
       IN  /\ attempted' = Append(attempted, file_idx)
           /\ failed_files' = LogFailedFile(failed_files, file_result, pdf_files[file_idx],
                                            log_writable)
           /\ stats' = UpdateStats(stats, file_result)
    /\ file_idx' = file_idx + 1
    /\ UNCHANGED <<pdf_files, log_writable, bpc>>
    /\ UNCHANGED <<parseVars, fieldVars, tableVars, citeVars, selectVars, storeVars, cancelVars, amountVars, llmVars, triageVars, fsVars, idVars, parVars>>

\* the loop is exhausted: return stats
BatchReturn ==
    /\ bpc = "loop"
    /\ file_idx > Len(pdf_files)
    /\ bpc' = "done"
    /\ UNCHANGED <<pdf_files, file_idx, stats, attempted, failed_files, log_writable>>
    /\ UNCHANGED <<parseVars, fieldVars, tableVars, citeVars, selectVars, storeVars, cancelVars, amountVars, llmVars, triageVars, fsVars, idVars, parVars>>

BatchNext ==
    \/ BatchScan
    \/ BatchFile
    \/ BatchReturn

\* batch_ingest runs to its return: nothing in the loop waits
SpecBatch == BatchInit /\ [][BatchNext]_vars /\ WF_vars(BatchNext)

\* =========================================================================
\* _normalize_amount applied to its own result

\* bound: the length of the amount_str strings
MaxAmountLen == 5

AmountChars == {"0", "1", " ", ".", ","}

\* the strings of test_amount_parsing
TestAmounts ==
    {<<"1", ",", "0", "0", "0", ".", "0", "0">>, <<"1", " ", "0", "0", "0", ",", "0", "0">>}

AmountInputs == UNION {[1..n -> AmountChars] : n \in 0..MaxAmountLen} \cup TestAmounts

AmountInit ==
    /\ ParseIdle
    /\ FieldsIdle
    /\ TablesIdle
    /\ CiteIdle
    /\ SelectIdle
    /\ StoreIdle
    /\ BatchIdle
    /\ CancelIdle
    /\ LlmIdle
    /\ TriageIdle
    /\ FsIdle
    /\ IdIdle
    /\ ParIdle
    /\ amount_str \in AmountInputs
    /\ renormalized = <<>>
    /\ apc = "input"

\* normalized = self._normalize_amount(x), x the amount string or the last result
NormalizeStep ==
    /\ apc = "input"
    /\ Len(renormalized) < 2
    /\ renormalized' = Append(renormalized,
                            NormalizeAmount(IF renormalized = <<>> THEN amount_str
                                            ELSE renormalized[Len(renormalized)]))
    /\ apc' = IF Len(renormalized') = 2 THEN "done" ELSE apc
    /\ UNCHANGED amount_str
    /\ UNCHANGED <<parseVars, fieldVars, tableVars, citeVars, selectVars, storeVars, batchVars, cancelVars, llmVars, triageVars, fsVars, idVars, parVars>>

AmountNext == NormalizeStep

SpecAmount == AmountInit /\ [][AmountNext]_vars

\* =========================================================================
\* The retry loops of classify_document and extract_author_title

\* bound: the max_retries a caller passes (the default is DefaultRetries)
MaxRetries == 2
DefaultRetries == 2

\* What one request to the LLM ends in:
\*   transport       requests raises a RequestException (connection, HTTP status)
\*   unexpected      another exception (the body or the answer is not an object)
\*   fields_true     the answer is JSON with the required fields (is_relevant
\*   fields_false    true / false; for the extraction: a usable author and title)
\*   fields_unknown  JSON with the required fields, the author empty or "unknown"
\*   no_fields       JSON without the required fields
\*   embedded_true   text that is not JSON but contains an object with the
\*   embedded_false  required fields
\*   embedded_unknown  the same, the author empty or "unknown"
\*   text_yes        text without such an object that contains "yes" or "true"
\*   text_other      text without such an object and without "yes" and "true"
ClassifyResponses ==
    {"transport", "unexpected", "fields_true", "fields_false", "no_fields",
     "embedded_true", "embedded_false", "text_yes", "text_other"}
ExtractResponses ==
    {"transport", "unexpected", "fields_true", "fields_unknown", "no_fields",
     "embedded_true", "embedded_unknown", "text_other"}

\* if attempt < max_retries: continue, with one retry too many
MayRetryOnceMore(a, m) == a <= m

\* if attempt < max_retries: continue
MayRetry(a, m) == a < m

\* One iteration of the loop of classify_document on a response: the record
\* it returns, "continue", or "exhausted" when the iteration falls through to
\* the end of the loop body.
ClassifyIteration(response, a, m) ==
    CASE response = "transport" ->
            IF MayRetry(a, m) THEN [next |-> "continue", value |-> NoAnswer]
            ELSE [next |-> "return", value |-> [ok |-> FALSE, reason |-> "API error"]]
      [] response = "unexpected" ->
            IF MayRetry(a, m) THEN [next |-> "continue", value |-> NoAnswer]
            ELSE [next |-> "return", value |-> [ok |-> FALSE, reason |-> "Error"]]
      [] response \in {"fields_true", "embedded_true"} ->
            [next |-> "return", value |-> [ok |-> TRUE, reason |-> "reason of the LLM"]]
      [] response \in {"fields_false", "embedded_false"} ->
            [next |-> "return", value |-> [ok |-> FALSE, reason |-> "reason of the LLM"]]
      [] response = "no_fields" ->
            IF MayRetry(a, m) THEN [next |-> "continue", value |-> NoAnswer]
            ELSE [next |-> "exhausted", value |-> NoAnswer]
      [] OTHER ->
            IF MayRetry(a, m) THEN [next |-> "continue", value |-> NoAnswer]
            ELSE [next |-> "return",
                  value |-> [ok |-> response = "text_yes",
                             reason |-> "Could not parse detailed reasoning"]]

\* One iteration of the loop of extract_author_title
ExtractIteration(response, a, m) ==
    CASE response = "transport" ->
            IF MayRetry(a, m) THEN [next |-> "continue", value |-> NoAnswer]
            ELSE [next |-> "return", value |-> [ok |-> FALSE, reason |-> "API error"]]
      [] response = "unexpected" ->
            IF MayRetry(a, m) THEN [next |-> "continue", value |-> NoAnswer]
            ELSE [next |-> "return", value |-> [ok |-> FALSE, reason |-> "Error"]]
      [] response \in {"fields_true", "embedded_true", "embedded_unknown"} ->
            [next |-> "return", value |-> [ok |-> TRUE, reason |-> "author and title of the LLM"]]
      [] OTHER ->
            IF MayRetry(a, m) THEN [next |-> "continue", value |-> NoAnswer]
            ELSE [next |-> "exhausted", value |-> NoAnswer]

LlmInit ==
    /\ ParseIdle
    /\ FieldsIdle
    /\ TablesIdle
    /\ CiteIdle
    /\ SelectIdle
    /\ StoreIdle
    /\ BatchIdle
    /\ CancelIdle
    /\ AmountIdle
    /\ TriageIdle
    /\ FsIdle
    /\ IdIdle
    /\ ParIdle
    /\ llm_call \in [fn : {"classify_document", "extract_author_title"},
                     max_retries : 0..MaxRetries]
    /\ attempt = 0
    /\ responses = <<>>
    /\ llm_result = NoAnswer
    /\ lpc = "loop"

LlmIteration(iteration(_, _, _), answers) ==
    /\ lpc = "loop"
    /\ attempt <= llm_call.max_retries
    /\ \E response \in answers :
          LET it == iteration(response, attempt, llm_call.max_retries)
          IN  /\ responses' = Append(responses, response)
              /\ IF it.next = "return"
                 THEN /\ llm_result' = it.value
                      /\ lpc' = "returned"
                      /\ UNCHANGED attempt
                 ELSE /\ attempt' = attempt + 1
                      /\ UNCHANGED <<llm_result, lpc>>
    /\ UNCHANGED llm_call
    /\ UNCHANGED <<parseVars, fieldVars, tableVars, citeVars, selectVars, storeVars, batchVars, cancelVars, amountVars, triageVars, fsVars, idVars, parVars>>

\* one iteration of: for attempt in range(max_retries + 1), classify_document
ClassifyAttempt ==
    /\ llm_call.fn = "classify_document"
    /\ LlmIteration(ClassifyIteration, ClassifyResponses)

\* one iteration of: for attempt in range(max_retries + 1), extract_author_title
ExtractAttempt ==
    /\ llm_call.fn = "extract_author_title"
    /\ LlmIteration(ExtractIteration, ExtractResponses)

\* the loop is exhausted: the final fallback after the loop
LlmFallback ==
    /\ lpc = "loop"
    /\ attempt > llm_call.max_retries
    /\ llm_result' = [ok |-> FALSE,
                      reason |-> IF llm_call.fn = "classify_document"
                                 THEN "Classification failed after retries"
                                 ELSE "Extraction failed after retries"]
    /\ lpc' = "returned"
    /\ UNCHANGED <<llm_call, attempt, responses>>
    /\ UNCHANGED <<parseVars, fieldVars, tableVars, citeVars, selectVars, storeVars, batchVars, cancelVars, amountVars, triageVars, fsVars, idVars, parVars>>

LlmNext ==
    \/ ClassifyAttempt
    \/ ExtractAttempt
    \/ LlmFallback

\* every request has a timeout, the loop waits for nothing else
SpecLlm == LlmInit /\ [][LlmNext]_vars /\ WF_vars(LlmNext)

\* =========================================================================
\* process_file of the TriageService

\* What reading the file and parse_pdf end in: the file cannot be read,
\* parse_pdf raises ValueError or another exception, the pages carry no
\* text, or the pages carry text.
TriageFileKinds == {"unreadable", "parse_value_error", "parse_error", "empty_text", "text"}

\* the audit entry of the except branch of process_file
ErrorEntry(reason) == [decision |-> "error", reason |-> reason, moved_to |-> "N/A"]

TriageInit ==
    /\ ParseIdle
    /\ FieldsIdle
    /\ TablesIdle
    /\ CiteIdle
    /\ SelectIdle
    /\ StoreIdle
    /\ BatchIdle
    /\ CancelIdle
    /\ AmountIdle
    /\ LlmIdle
    /\ FsIdle
    /\ IdIdle
    /\ ParIdle
    /\ file_kind \in TriageFileKinds
    /\ move_fails \in BOOLEAN
    /\ file_at = "source"
    /\ moved = 0
    /\ audit_log = <<>>
    /\ trpc = "read"

\* process_file up to the call of classify_document
TriageRead ==
    /\ trpc = "read"
    /\ IF file_kind = "text"
       THEN /\ llm_call' = [fn |-> "classify_document", max_retries |-> DefaultRetries]
            /\ lpc' = "loop"
            /\ trpc' = "classify"
            /\ UNCHANGED audit_log
       ELSE /\ audit_log' = Append(audit_log, ErrorEntry(file_kind))
            /\ trpc' = "done"
            /\ UNCHANGED <<llm_call, lpc>>
    /\ UNCHANGED <<attempt, responses, llm_result>>
    /\ UNCHANGED <<file_kind, move_fails, file_at, moved>>
    /\ UNCHANGED <<parseVars, fieldVars, tableVars, citeVars, selectVars, storeVars, batchVars, cancelVars, amountVars, fsVars, idVars, parVars>>

\* process_file from the return of classify_document on
TriageMove ==
    /\ trpc = "classify"
    /\ lpc = "returned"
    /\ LET is_relevant == llm_result.ok
           decision == IF is_relevant THEN "relevant" ELSE "irrelevant"
       IN  IF move_fails
           THEN /\ audit_log' = Append(audit_log, ErrorEntry("Failed to move file"))
                /\ UNCHANGED <<file_at, moved>>
           ELSE /\ file_at' = decision
                /\ moved' = moved + 1
                /\ audit_log' = Append(audit_log,
                       [decision |-> decision, reason |-> llm_result.reason,
                        moved_to |-> decision])
    /\ trpc' = "done"
    /\ UNCHANGED <<file_kind, move_fails>>
    /\ UNCHANGED llmVars
    /\ UNCHANGED <<parseVars, fieldVars, tableVars, citeVars, selectVars, storeVars, batchVars, cancelVars, amountVars, fsVars, idVars, parVars>>

TriageNext ==
    \/ TriageRead
    \/ ClassifyAttempt
    \/ LlmFallback
    \/ TriageMove

SpecTriage == TriageInit /\ [][TriageNext]_vars

\* =========================================================================
\* safe_rename_file of the RenameService and safe_move_file of the
\* TriageService
\*
\* The names of the target directory that matter are the wanted name
\* stem.suffix, written 0, and the numbered names stem_k.suffix, written k.
\* A source file under another name, or in another directory, is at None.
\* A listing [upto, extra] holds the names 0 .. upto - 1 and the names in
\* extra.

\* bound: the largest numbered name of the small listings
MaxNames == 3

\* if counter > 1000: return (source_path, False)
RenameLimit == 1000
\* if counter > 10000: raise IOError
MoveLimit == 10000

CounterLimit(fn) == IF fn = "safe_rename_file" THEN RenameLimit ELSE MoveLimit

\* target_path.exists()
Exists(k) == k < listing.upto \/ k \in listing.extra

SmallListings == [upto : {0}, extra : SUBSET (0..MaxNames)]
FullListings(fn) == [upto : {CounterLimit(fn) - 1, CounterLimit(fn)}, extra : {{}}]

\* the collision test, without it
CollidesNever(fn, target, source) == FALSE

\* rename: if target_path.exists() and target_path != source_path
\* move:   if target_path.exists()
Collides(fn, target, source) ==
    IF fn = "safe_rename_file" THEN Exists(target) /\ target # source
    ELSE Exists(target)

FsInit ==
    /\ ParseIdle
    /\ FieldsIdle
    /\ TablesIdle
    /\ CiteIdle
    /\ SelectIdle
    /\ StoreIdle
    /\ BatchIdle
    /\ CancelIdle
    /\ AmountIdle
    /\ LlmIdle
    /\ TriageIdle
    /\ IdIdle
    /\ ParIdle
    /\ \E fn \in {"safe_rename_file", "safe_move_file"} :
          /\ listing \in SmallListings \cup FullListings(fn)
          /\ \E source \in {None} \cup (IF fn = "safe_rename_file"
                                         THEN listing.extra
                                         ELSE listing.extra \cap {0}) :
             \E os_fails \in BOOLEAN :
                fs_call = [fn |-> fn, source |-> source, os_fails |-> os_fails]
    /\ counter = 0
    /\ target_path = 0
    /\ fs_result = [path |-> None, success |-> FALSE]
    /\ clobbered = FALSE
    /\ fspc = "start"

\* target_path = directory / name, and the collision test
FsStart ==
    /\ fspc = "start"
    /\ target_path' = 0
    /\ IF Collides(fs_call.fn, 0, fs_call.source)
       THEN /\ counter' = 1
            /\ fspc' = "loop"
       ELSE /\ fspc' = "rename"
            /\ UNCHANGED counter
    /\ UNCHANGED <<fs_call, listing, fs_result, clobbered>>
    /\ UNCHANGED <<parseVars, fieldVars, tableVars, citeVars, selectVars, storeVars, batchVars, cancelVars, amountVars, llmVars, triageVars, idVars, parVars>>

\* while target_path.exists(): one iteration, or the exit of the loop
FsLoop ==
    /\ fspc = "loop"
    /\ IF Exists(target_path)
       THEN /\ target_path' = counter
            /\ counter' = counter + 1
            /\ IF counter + 1 > CounterLimit(fs_call.fn)
               THEN /\ fs_result' = [path |-> fs_call.source, success |-> FALSE]
                    /\ fspc' = "done"
               ELSE UNCHANGED <<fs_result, fspc>>
       ELSE /\ fspc' = "rename"
            /\ UNCHANGED <<counter, target_path, fs_result>>
    /\ UNCHANGED <<fs_call, listing, clobbered>>
    /\ UNCHANGED <<parseVars, fieldVars, tableVars, citeVars, selectVars, storeVars, batchVars, cancelVars, amountVars, llmVars, triageVars, idVars, parVars>>

\* source_path.rename(target_path) / shutil.move(source_path, target_path)
FsRename ==
    /\ fspc = "rename"
    /\ IF fs_call.os_fails
       THEN /\ fs_result' = [path |-> fs_call.source, success |-> FALSE]
            /\ UNCHANGED clobbered
       ELSE /\ fs_result' = [path |-> target_path, success |-> TRUE]
            /\ clobbered' = (Exists(target_path) /\ target_path # fs_call.source)
    /\ fspc' = "done"
    /\ UNCHANGED <<fs_call, listing, counter, target_path>>
    /\ UNCHANGED <<parseVars, fieldVars, tableVars, citeVars, selectVars, storeVars, batchVars, cancelVars, amountVars, llmVars, triageVars, idVars, parVars>>

FsNext ==
    \/ FsStart
    \/ FsLoop
    \/ FsRename

SpecFs == FsInit /\ [][FsNext]_vars

\* =========================================================================
\* The chunk ids of store_document

\* bound: the seconds the clock advances
MaxSeconds == 1
\* bound: the store_document calls
MaxCalls == 2
\* bound: the values of the 8 hex digits of the hash
MaxHashes == 2

IdTexts == {<<" ", "\n">>, <<"a", "b">>}
IdPages == [page_number : 1..MaxStorePages, text : IdTexts]
IdInputs ==
    [text : {<<"a", "b">>},
     pages : UNION {[1..k -> IdPages] : k \in 0..MaxStorePages}]

\* every text that is hashed: a page text, or the placeholder of a blank page
HashedTexts == IdTexts \cup {EmptyPagePlaceholder(n) : n \in 1..MaxStorePages}

\* page_id = f"doc_{timestamp}_page{page_num}_{page_hash}" for every page
RECURSIVE PageIds(_, _)
PageIds(ps, timestamp) ==
    IF ps = <<>> THEN <<>>
    ELSE LET page_num == Head(ps).page_number
             page_text == IF Strip(Head(ps).text) = <<>> THEN EmptyPagePlaceholder(page_num)
                          ELSE Head(ps).text
         IN  <<[timestamp |-> timestamp, page |-> page_num, hash |-> md5[page_text]]>>
             \o PageIds(Tail(ps), timestamp)

\* doc_id = f"doc_{timestamp}_{doc_hash}" on the legacy path
ChunkIds(args, timestamp) ==
    IF Len(args.pages) > 0 THEN PageIds(args.pages, timestamp)
    ELSE <<[timestamp |-> timestamp, page |-> None, hash |-> md5[args.text]]>>

IdInit ==
    /\ ParseIdle
    /\ FieldsIdle
    /\ TablesIdle
    /\ CiteIdle
    /\ SelectIdle
    /\ StoreIdle
    /\ BatchIdle
    /\ CancelIdle
    /\ AmountIdle
    /\ LlmIdle
    /\ TriageIdle
    /\ FsIdle
    /\ ParIdle
    /\ clock = 0
    /\ md5 \in [HashedTexts -> 1..MaxHashes]
    /\ issued = <<>>

\* a second passes
ClockTick ==
    /\ clock < MaxSeconds
    /\ clock' = clock + 1
    /\ UNCHANGED <<md5, issued>>
    /\ UNCHANGED <<parseVars, fieldVars, tableVars, citeVars, selectVars, storeVars, batchVars, cancelVars, amountVars, llmVars, triageVars, fsVars, parVars>>

\* store_document: the ids it hands to collection.add
StoreIds ==
    /\ Len(issued) < MaxCalls
    /\ \E args \in IdInputs :
          issued' = Append(issued, ChunkIds(args, clock))
    /\ UNCHANGED <<clock, md5>>
    /\ UNCHANGED <<parseVars, fieldVars, tableVars, citeVars, selectVars, storeVars, batchVars, cancelVars, amountVars, llmVars, triageVars, fsVars, parVars>>

IdNext ==
    \/ ClockTick
    \/ StoreIds

SpecIds == IdInit /\ [][IdNext]_vars

\* =========================================================================
\* Several invocations of parse_pdf on one DocumentService
\*
\* parse_pdf and _extract_tables keep everything they compute in local
\* variables (pages, raw_text, page_count, tables, current_rows); the service
\* object is only read.  Every invocation runs the steps of parse_pdf on the
\* frame of its own call, and the scheduler interleaves the steps.

\* bound: the invocations running at once
MaxInvocations == 2
Invocations == 1..MaxInvocations

\* the pages of these documents carry short lines: a page of plain text, and
\* a page with a table of two rows under plain text
ProseLine(k) == Rep("a", (MinTextLen \div 2) - 10 + k)
ProseText(k) == ProseLine(k) \o <<"\n">> \o ProseLine(k) \o <<"\n">> \o ProseLine(k)
TableText(k) == ProseText(k) \o <<"\n", "a", "|", "b", "\n", "c", "|", "d">>

\* page.extract_text() or "" of the pages of these documents
ParPageText(kind, k) ==
    CASE kind = "prose" -> ProseText(k)
      [] kind = "table" -> TableText(k)
      [] OTHER -> PageText(kind, k)

\* text.split("\n"), by the positions of the newlines
LinesOf(text) ==
    LET nl == {k \in 1..Len(text) : text[k] = "\n"}
        n == Cardinality(nl)
        cut(j) == IF j = 0 THEN 0
                  ELSE IF j = n + 1 THEN Len(text) + 1
                  ELSE CHOOSE q \in nl : Cardinality({r \in nl : r < q}) = j - 1
    IN  [j \in 1..(n + 1) |-> SubSeq(text, cut(j - 1) + 1, cut(j) - 1)]

ParDocs ==
    {[kind |-> "ok", pages |-> <<"prose", "table">>, ocrKind |-> "short", ocrFail |-> "none"],
     [kind |-> "ok", pages |-> <<"raise", "short">>, ocrKind |-> "short", ocrFail |-> "none"],
     [kind |-> "ok", pages |-> <<"blank">>, ocrKind |-> "short", ocrFail |-> "tesseract"]}
\* every document without a page budget, the digital one also with a budget
ParCalls ==
    [doc : ParDocs, max_pages : {None}]
        \cup {c \in [doc : ParDocs, max_pages : {1}] : c.doc.pages = <<"prose", "table">>}

\* pages = [], raw_text = "", page_count = 0 of a new call
NewFrame(call) ==
    [doc |-> call.doc, max_pages |-> call.max_pages, page_count |-> 0,
     pages |-> <<>>, raw_text |-> <<>>, idx |-> 0, ocr_pages |-> <<>>, tables |-> <<>>]

NoOut == [kind |-> "none"]
Raised(e) == [kind |-> "error", error |-> e]
Returned(f) ==
    [kind |-> "result", raw_text |-> Strip(f.raw_text), pages |-> f.pages,
     tables |-> f.tables, pages_count |-> f.page_count]

\* every invocation on the frame of the first one
FrameShared(i) == 1

\* the frame of invocation i: the locals of its own call
Frame(i) == i

\* One step of parse_pdf at position p on the locals f: the position and the
\* locals after it, and what the call returns or raises when it ends.
ParStep(p, f) ==
    CASE p = "open" ->
            IF OpenOutcome(f.doc) # "ok"
            THEN [pc |-> "failed", f |-> f,
                  out |-> Raised(Err("ValueError", OpenOutcome(f.doc)))]
            ELSE [pc |-> "extract",
                  f |-> [f EXCEPT !.page_count = Len(f.doc.pages), !.idx = 0],
                  out |-> NoOut]
      [] p = "extract" ->
            IF f.idx < Min({PagesToExtract(f.page_count, f.max_pages), Len(f.doc.pages)})
            THEN LET page_text == ParPageText(f.doc.pages[f.idx + 1], f.idx)
                 IN  [pc |-> "extract",
                      f |-> [f EXCEPT !.pages = Append(@, [page_number |-> f.idx + 1,
                                                           text |-> page_text]),
                                      !.raw_text = @ \o page_text \o <<"\n">>,
                                      !.idx = @ + 1],
                      out |-> NoOut]
            ELSE [pc |-> IF IsLikelyScanned(f.raw_text) THEN "ocr" ELSE "tables",
                  f |-> [f EXCEPT !.idx = 0], out |-> NoOut]
      [] p = "ocr" ->
            IF f.doc.ocrFail = "convert"
            THEN [pc |-> "failed", f |-> f,
                  out |-> Raised(Err("ValueError", "Failed to extract text via OCR"))]
            ELSE [pc |-> "ocr_page", f |-> [f EXCEPT !.idx = 0, !.ocr_pages = <<>>],
                  out |-> NoOut]
      [] p = "ocr_page" ->
            IF f.idx < ImagesToProcess(Len(f.doc.pages), f.max_pages)
            THEN IF f.doc.ocrFail = "tesseract"
                 THEN [pc |-> "failed", f |-> f,
                       out |-> Raised(Err("ValueError", "Failed to extract text via OCR"))]
                 ELSE [pc |-> "ocr_page",
                       f |-> [f EXCEPT !.ocr_pages =
                                          Append(@, [page_number |-> f.idx + 1,
                                                     text |-> OcrText(f.doc.ocrKind, f.idx)]),
                                       !.idx = @ + 1],
                       out |-> NoOut]
            ELSE [pc |-> "tables",
                  f |-> [f EXCEPT !.pages = f.ocr_pages,
                                  !.raw_text = JoinNl(PageTexts(f.ocr_pages)),
                                  !.page_count = Len(f.ocr_pages),
                                  !.idx = 0],
                  out |-> NoOut]
      [] OTHER ->
            IF f.idx < Len(f.pages)
            THEN LET page == f.pages[f.idx + 1]
                 IN  [pc |-> "tables",
                      f |-> [f EXCEPT !.tables = PageTables(@, LinesOf(page.text),
                                                            <<>>, page.page_number),
                                      !.idx = @ + 1],
                      out |-> NoOut]
            ELSE [pc |-> "done", f |-> f, out |-> Returned(f)]

ParInit ==
    /\ ParseIdle
    /\ FieldsIdle
    /\ TablesIdle
    /\ CiteIdle
    /\ SelectIdle
    /\ StoreIdle
    /\ BatchIdle
    /\ CancelIdle
    /\ AmountIdle
    /\ LlmIdle
    /\ TriageIdle
    /\ FsIdle
    /\ IdIdle
    /\ par_calls \in [Invocations -> ParCalls]
    /\ par_pc = [i \in Invocations |-> "idle"]
    /\ frames = [i \in Invocations |-> NewFrame(par_calls[i])]
    /\ par_out = [i \in Invocations |-> NoOut]

\* invocation i enters parse_pdf
ParCall(i) ==
    /\ par_pc[i] = "idle"
    /\ frames' = [frames EXCEPT ![Frame(i)] = NewFrame(par_calls[i])]
    /\ par_pc' = [par_pc EXCEPT ![i] = "open"]
    /\ UNCHANGED <<par_calls, par_out>>
    /\ UNCHANGED <<parseVars, fieldVars, tableVars, citeVars, selectVars, storeVars, batchVars, cancelVars, amountVars, llmVars, triageVars, fsVars, idVars>>

\* invocation i takes its next step
ParRun(i) ==
    /\ par_pc[i] \in {"open", "extract", "ocr", "ocr_page", "tables"}
    /\ LET step == ParStep(par_pc[i], frames[Frame(i)])
       IN  /\ frames' = [frames EXCEPT ![Frame(i)] = step.f]
           /\ par_pc' = [par_pc EXCEPT ![i] = step.pc]
           /\ par_out' = [par_out EXCEPT ![i] = step.out]
    /\ UNCHANGED par_calls
    /\ UNCHANGED <<parseVars, fieldVars, tableVars, citeVars, selectVars, storeVars, batchVars, cancelVars, amountVars, llmVars, triageVars, fsVars, idVars>>

ParNext ==
    \/ \E i \in Invocations : ParCall(i)
    \/ \E i \in Invocations : ParRun(i)

SpecPar == ParInit /\ [][ParNext]_vars

\* =========================================================================
\* Properties of parse_pdf
Finished == pc \in {"done", "failed"}
Entered == strategy = "absent" /\ mod.PyPDF2 /\ pc \notin {"idle", "not_called"}

\* the digital text of the selected pages, each followed by a newline
RECURSIVE ConcatNl(_)
ConcatNl(texts) ==
    IF texts = <<>> THEN <<>> ELSE texts[1] \o <<"\n">> \o ConcatNl(Tail(texts))

\* the page indices parse_pdf selects for digital extraction
Selected(d, m) == [k \in 1..PagesToExtract(Len(d.pages), m) |-> k - 1]

\* the digital text extract_text gives for the selected pages of a document
DigitalTexts(d, m) ==
    [k \in 1..PagesToExtract(Len(d.pages), m) |-> PageText(d.pages[k], k - 1)]

Ascending(ns) == \A k \in 1..(Len(ns) - 1) : ns[k] < ns[k + 1]

C2_PageNumbersAreSourcePositions ==
    /\ pc = "done" =>
          /\ Ascending(PageNumbers(result.pages))
          /\ LET read == IF used_ocr THEN ocrLog ELSE extractLog
             IN  /\ Len(read) = Len(result.pages)
                 /\ \A k \in 1..Len(read) : result.pages[k].page_number = read[k] + 1
    /\ (/\ Finished
        /\ mod.PyPDF2
        /\ strategy = "random"
        /\ doc.kind = "ok"
        /\ Len(doc.pages) = TestPages
        /\ doc.pages[1] = "long"
        /\ max_pages = TestBudget) =>
          /\ pc = "done"
          /\ PageNumbers(result.pages) = <<1, 5, 10>>

\* C3 (as stated): OCR is taken exactly when the newline-joined concatenation
\* of the digital page texts has trimmed length below 100 or is less than
\* 50% alphabetic.
OcrDecided == pc \in {"ocr", "ocr_page", "build", "done"} \/ used_ocr
OcrTaken == pc \in {"ocr", "ocr_page"} \/ used_ocr

C3_OcrIffJoinedTextSparse ==
    OcrDecided =>
        LET joined == JoinNl(DigitalTexts(doc, max_pages))
        IN  OcrTaken <=> (\/ Len(Strip(joined)) < MinTextLen
                          \/ 2 * AlphaCount(joined) < Len(joined))

\* C3 (amended): OCR is taken exactly when the concatenation in which every
\* selected page's digital text is followed by a newline (so with a trailing
\* newline, untrimmed for the ratio) has trimmed length below 100 or is less
\* than 50% alphabetic; one decision on the whole text after all selected
\* pages were extracted, whatever OCR returns afterwards.
C3_OcrIffConcatenationSparse ==
    /\ OcrDecided =>
        LET whole == ConcatNl(DigitalTexts(doc, max_pages))
        IN  /\ OcrTaken <=> (\/ Len(Strip(whole)) < MinTextLen
                             \/ 2 * AlphaCount(whole) < Len(whole))
            /\ Len(extractLog) = PagesToExtract(Len(doc.pages), max_pages)
    /\ ~OcrDecided => ~used_ocr /\ ocrLog = <<>>

\* OCR taken on the ratio alone, for a text that is exactly half alphabetic
C3_Witness ==
    /\ pc = "done"
    /\ used_ocr
    /\ LET joined == JoinNl(DigitalTexts(doc, max_pages))
       IN  /\ Len(Strip(joined)) >= MinTextLen
           /\ 2 * AlphaCount(joined) = Len(joined)

\* three pages, each below 100 characters, together above: no OCR
C3_WitnessWholeText ==
    /\ pc = "done"
    /\ ~used_ocr
    /\ Len(result.pages) = 3
    /\ \A k \in 1..3 : Len(Strip(result.pages[k].text)) < MinTextLen

\* a sparse document goes to OCR although OCR returns sparse text too
C3_WitnessSparse ==
    /\ pc = "done"
    /\ used_ocr
    /\ Len(Strip(ConcatNl(DigitalTexts(doc, max_pages)))) < MinTextLen
    /\ Len(result.raw_text) < MinTextLen

\* C4: when the OCR fallback is taken, pages and raw_text of the result are
\* OCR output only: one OCR page per page index that was selected for digital
\* extraction, raw_text the trimmed newline-join of the OCR texts, and no
\* character of the digital text is left.
C4_OcrReplacesDigital ==
    (pc = "done" /\ used_ocr) =>
        /\ PageNumbers(result.pages) = PageNumbers(digital.pages)
        /\ \A k \in 1..Len(result.pages) :
              result.pages[k].text = OcrText(doc.ocrKind, Selected(doc, max_pages)[k])
        /\ result.raw_text = Strip(JoinNl(PageTexts(result.pages)))
        /\ \A k \in 1..Len(result.raw_text) : result.raw_text[k] \notin {"a", "1"}

C4_Witness ==
    /\ pc = "done"
    /\ used_ocr
    /\ Len(result.pages) = 2
    /\ Len(doc.pages) = 3
    /\ \E k \in 1..2 : digital.pages[k].text # <<>>
    /\ result.raw_text # <<>>

\* C5: when the heuristic requires OCR and the OCR backend (pdf2image,
\* pytesseract) is missing, parse fails with the OCR-unavailable error, which
\* differs from every other failure, and never returns the digital text.
OcrBackendMissing == ~({"pdf2image", "pytesseract"} \subseteq installed)

C5_OcrUnavailableIsReported ==
    (/\ Finished
     /\ strategy = "absent"
     /\ "PyPDF2" \in installed
     /\ OcrBackendMissing
     /\ OpenOutcome(doc) = "ok"
     /\ IsLikelyScanned(ConcatNl(DigitalTexts(doc, max_pages)))) =>
        /\ pc = "failed"
        /\ error = Err("ValueError", "OCR is not available")

\* C6: an encrypted PDF fails with the encrypted-document error before any
\* page is extracted or OCRed, a PDF of 0 pages fails with the empty-document
\* error, unparsable bytes fail with the parse error; none returns a result.
C6_DocumentLevelFailures ==
    (Entered /\ OpenOutcome(doc) # "ok") =>
        /\ extractLog = <<>> /\ ocrLog = <<>> /\ ~used_ocr
        /\ pages = <<>> /\ result = NoResult
        /\ pc \in {"open", "failed"}
        /\ pc = "failed" =>
              /\ error.type = "ValueError"
              /\ doc.kind = "encrypted" => error.msg = "Cannot process encrypted PDF files"
              /\ doc.kind = "invalid" => error.msg = "Failed to parse PDF"
              /\ (doc.kind = "ok" /\ Len(doc.pages) = 0) =>
                    error.msg = "PDF file is empty (0 pages)"

C6_Witness ==
    /\ pc = "failed"
    /\ doc.kind = "encrypted"
    /\ Len(doc.pages) = 0
    /\ error.type = "ValueError"

\* C7: a selected page whose extract_text raises is recorded with its true
\* page_number and empty text, extraction goes on with the remaining selected
\* pages, the digital pages list has one Page per selected index, and the
\* document is not aborted.
C7_PageFailureTolerated ==
    /\ (Entered /\ OcrDecided) =>
          /\ PageNumbers(digital.pages) =
                [k \in 1..PagesToExtract(Len(doc.pages), max_pages) |-> k]
          /\ \A k \in 1..Len(digital.pages) :
                digital.pages[k].text =
                    IF doc.pages[k] \in {"raise", "none"} THEN <<>>
                    ELSE DigitalText(doc.pages[k], k - 1)
    /\ (pc = "failed" /\ error.msg = "Failed to parse PDF") => doc.kind = "invalid"
    /\ (pc = "failed" /\ extractLog # <<>>) => used_ocr

C7_Witness ==
    /\ pc = "done"
    /\ ~used_ocr
    /\ Len(result.pages) = 3
    /\ doc.pages[2] = "raise"
    /\ result.pages[2] = [page_number |-> 2, text |-> <<>>]
    /\ result.pages[3].text # <<>>

\* =========================================================================
\* Properties of _build_key_values
FieldNames == {"invoice_number", "invoice_date", "due_date", "total_amount",
               "subtotal_amount", "vat_amount", "currency", "supplier_name",
               "customer_name"}

InputLines == SplitIntoLines(NormalizeText(ftext))

\* C8: every key of key_values has an entry in key_values_confidence, and
\* that confidence lies in [0, 1] (0..100 hundredths).
C8_EveryKeyHasConfidence ==
    fpc = "done" =>
        /\ DOMAIN key_values = FieldNames
        /\ \A f \in DOMAIN key_values :
              /\ f \in DOMAIN confidences
              /\ confidences[f] >= 0 /\ confidences[f] <= 100

C8_Witness ==
    /\ fpc = "done"
    /\ key_values.supplier_name # NoValue
    /\ key_values.customer_name = NoValue
    /\ confidences.supplier_name = 80
    /\ confidences.customer_name = 0

\* the candidates of a party field: the inline value of every keyword line
\* that has one (0.8), the line after every keyword line (0.7), and the line
\* at the fallback index (0.3)
PartyCandidates(lines, patterns, fallback_index) ==
    {Cand(InlineName(lines[j]), 80) :
        j \in {i \in 1..Len(lines) : MatchesAny(patterns, lines[i]) /\ InlineName(lines[i]) # <<>>}}
    \cup {Cand(lines[j + 1], 70) :
        j \in {i \in 1..(Len(lines) - 1) : MatchesAny(patterns, lines[i])}}
    \cup {Cand(lines[j], 30) : j \in {fallback_index + 1} \cap (1..Len(lines))}

Best(cands) ==
    IF cands = {} THEN {Nothing}
    ELSE {c \in cands : \A o \in cands : c.confidence >= o.confidence}

NullIffZero ==
    \A f \in FieldNames : (key_values[f] = NoValue) <=> (confidences[f] = 0)

\* C9 (as stated): every field reports the highest-confidence non-null
\* candidate among all lines and tiers, and the value is null exactly when
\* the confidence is 0.
C9_HighestConfidenceCandidate ==
    fpc = "done" =>
        /\ NullIffZero
        /\ Cand(key_values.supplier_name, confidences.supplier_name)
              \in Best(PartyCandidates(InputLines, SupplierPatterns, 0))
        /\ Cand(key_values.customer_name, confidences.customer_name)
              \in Best(PartyCandidates(InputLines, CustomerPatterns, 2))

\* what the first keyword line that yields a value gives for a party field
FirstYield(lines, patterns, fallback_index) ==
    LET yielding == {j \in 1..Len(lines) :
                        /\ MatchesAny(patterns, lines[j])
                        /\ (InlineName(lines[j]) # <<>> \/ j < Len(lines))}
        first == Min(yielding)
    IN  IF yielding # {}
        THEN IF InlineName(lines[first]) # <<>>
             THEN Cand(InlineName(lines[first]), 80)
             ELSE Cand(lines[first + 1], 70)
        ELSE IF fallback_index < Len(lines) THEN Cand(lines[fallback_index + 1], 30)
        ELSE Nothing

\* C9 (amended): the value is null exactly when the confidence is 0; the
\* anchored tier is reported whenever some line yields an anchored candidate
\* and the whole-text or positional fallback only when no line does; for
\* party names the first keyword line that yields a value decides: its
\* inline value (0.8) if it has one, else the line after it (0.7), also when
\* a later keyword line has an inline value.
C9_FirstYieldingLineDecides ==
    fpc = "done" =>
        /\ NullIffZero
        /\ Cand(key_values.supplier_name, confidences.supplier_name)
              = FirstYield(InputLines, SupplierPatterns, 0)
        /\ Cand(key_values.customer_name, confidences.customer_name)
              = FirstYield(InputLines, CustomerPatterns, 2)
        /\ confidences.invoice_number \in {0, 50, 90}
        /\ confidences.invoice_number = 90 <=>
              \E j \in 1..Len(InputLines) :
                  /\ ~Contains(Lower(InputLines[j]), Lower(<<"I", "N", "V", "O", "I", "C", "E", " ", "D", "A", "T", "E">>))
                  /\ ~Contains(Lower(InputLines[j]), Lower(<<"F", "A", "K", "T", "U", "R", "A", "D", "A", "T", "U", "M">>))
                  /\ \E k \in 1..Len(InvoicePatterns) : Search(InvoicePatterns[k], InputLines[j]).found
        /\ confidences.currency \in {0, 80}
        /\ confidences.currency = 80 <=>
              \E j \in 1..Len(InputLines) : FindCurrencyToken(InputLines[j]) # NoValue

C9_Witness ==
    /\ fpc = "done"
    /\ confidences.supplier_name = 70
    /\ \E c \in PartyCandidates(InputLines, SupplierPatterns, 0) : c.confidence = 80

\* the lines that contain a keyword of the field and an amount
AmountLinesOf(lines, keywords) ==
    {j \in 1..Len(lines) :
        HasKeyword(lines[j], keywords) /\ Search(AMOUNT_PATTERN, lines[j]).found}

LineAmount(line) == NormalizeAmount(Search(AMOUNT_PATTERN, line).group1)

ExtremeAmong(lines, keywords, value, confidence, prefer_highest) ==
    LET C == AmountLinesOf(lines, keywords)
        anyAmount == {j \in 1..Len(lines) : Search(AMOUNT_PATTERN, lines[j]).found}
    IN  /\ C # {} =>
              /\ confidence = 85
              /\ \E j \in C :
                    /\ value = LineAmount(lines[j])
                    /\ \A i \in C :
                          IF prefer_highest
                          THEN AmountToNumber(LineAmount(lines[j])) >= AmountToNumber(LineAmount(lines[i]))
                          ELSE AmountToNumber(LineAmount(lines[j])) <= AmountToNumber(LineAmount(lines[i]))
        /\ (C = {} /\ anyAmount # {}) =>
              /\ confidence = 30
              /\ value = LineAmount(lines[Min(anyAmount)])
        /\ anyAmount = {} => (confidence = 0 /\ value = NoValue)

\* C10: among the lines with a keyword of the field and an amount,
\* total_amount is the candidate of greatest numeric value, subtotal_amount
\* and vat_amount the candidate of least numeric value, in whatever order
\* the lines stand; the first-amount fallback (0.3) is used only when there
\* is no such line.
C10_AmountByNumericValue ==
    fpc = "done" =>
        /\ ExtremeAmong(InputLines, TotalKeywords, key_values.total_amount,
                        confidences.total_amount, TRUE)
        /\ ExtremeAmong(InputLines, SubtotalKeywords, key_values.subtotal_amount,
                        confidences.subtotal_amount, FALSE)
        /\ ExtremeAmong(InputLines, VatKeywords, key_values.vat_amount,
                        confidences.vat_amount, FALSE)

C10_Witness ==
    /\ fpc = "done"
    /\ Len(InputLines) = 3
    /\ Cardinality(AmountLinesOf(InputLines, TotalKeywords)) = 3
    /\ key_values.total_amount = LineAmount(InputLines[3])
    /\ key_values.total_amount # LineAmount(InputLines[1])
    /\ key_values.total_amount # LineAmount(InputLines[2])
    /\ confidences.total_amount = 85

\* =========================================================================
\* Properties of _extract_tables
LinesOfPage(p) == Split(tpages[p].text, {"\n"})

\* lines i..j of page p are a maximal run of consecutive table-like lines
IsMaximalRun(p, i, j) ==
    LET lines == LinesOfPage(p)
    IN  /\ i <= j
        /\ \A k \in i..j : LooksLikeTableRow(lines[k])
        /\ (i > 1 => ~LooksLikeTableRow(lines[i - 1]))
        /\ (j < Len(lines) => ~LooksLikeTableRow(lines[j + 1]))

\* the maximal runs of two or more lines, as <<page, first line, last line>>
LongRuns ==
    {r \in UNION {{<<p, i, j>> : i, j \in 1..Len(LinesOfPage(p))} : p \in 1..Len(tpages)} :
        IsMaximalRun(r[1], r[2], r[3]) /\ r[3] > r[2]}

RunBefore(a, b) == a[1] < b[1] \/ (a[1] = b[1] /\ a[2] < b[2])

\* C11: every Table has at least 2 rows; the Tables are, in document order,
\* the maximal runs of two or more consecutive table-like lines of one page
\* (a run ends at a line that is not table-like and at the end of the page),
\* each with the rows of its lines in line order and its page's page_number;
\* a run of one line gives no Table.
C11_TablesAreLongRunsOfOnePage ==
    tpc = "done" =>
        /\ \A t \in 1..Len(tables) : Len(tables[t].rows) >= 2
        /\ Len(tables) = Cardinality(LongRuns)
        /\ \E f \in [1..Len(tables) -> LongRuns] :
              /\ \A a, b \in 1..Len(tables) : a < b => RunBefore(f[a], f[b])
              /\ \A t \in 1..Len(tables) :
                    /\ tables[t].page_number = tpages[f[t][1]].page_number
                    /\ tables[t].rows =
                          [k \in 1..(f[t][3] - f[t][2] + 1) |->
                              SplitRow(LinesOfPage(f[t][1])[f[t][2] + k - 1])]

\* page 1 ends with a single table-like line, page 2 starts with a run of two
C11_Witness ==
    /\ tpc = "done"
    /\ Len(tpages) = 2
    /\ LooksLikeTableRow(LinesOfPage(1)[Len(LinesOfPage(1))])
    /\ Len(LinesOfPage(2)) = 2
    /\ LooksLikeTableRow(LinesOfPage(2)[1])
    /\ Len(tables) = 1
    /\ tables[1].page_number = 2
    /\ Len(tables[1].rows) = 2

\* =========================================================================
\* Properties of _find_best_matching_line
ChunkLines == Split(chunk_text, {"\n"})
Blank(i) == Strip(ChunkLines[i]) = <<>>
ContainsQuery(i) == Contains(Lower(ChunkLines[i]), Lower(query_text))
Overlap(i) == Cardinality(Words(Lower(query_text)) \cap Words(Lower(ChunkLines[i])))
NonBlankLines == {i \in 1..Len(ChunkLines) : ~Blank(i)}
Trimmed(i) == Match(i, Strip(ChunkLines[i]))

\* C12 (as stated): if any line contains the whole query as a
\* case-insensitive substring, the first such line is returned with its
\* 1-based line number.
C12_FirstLineContainingQuery ==
    (cpc = "done" /\ \E i \in 1..Len(ChunkLines) : ContainsQuery(i)) =>
        LET first == Min({i \in 1..Len(ChunkLines) : ContainsQuery(i)})
        IN  /\ cite.line_number = first
            /\ Strip(cite.line_text) = Strip(ChunkLines[first])

\* C12 (amended): if any line that is not blank contains the whole query as a
\* case-insensitive substring, the first such non-blank line is returned with
\* its 1-based line number, whatever the word overlap of the other lines;
\* blank lines are skipped before the phrase test.
C12_FirstNonBlankLineContainingQuery ==
    (cpc = "done" /\ \E i \in NonBlankLines : ContainsQuery(i)) =>
        cite = Trimmed(Min({i \in NonBlankLines : ContainsQuery(i)}))

\* the phrase line is returned although an earlier line shares more words
C12_Witness ==
    /\ cpc = "done"
    /\ cite.line_number = 2
    /\ ContainsQuery(2)
    /\ ~ContainsQuery(1)
    /\ Overlap(1) > Overlap(2)

\* C13: when no line contains the whole query, the non-blank line with the
\* largest word overlap is returned, and among the lines of the same largest
\* non-zero overlap the one with the smallest line number.
C13_LargestOverlapFirstWins ==
    (/\ cpc = "done"
     /\ NonBlankLines # {}
     /\ \A i \in 1..Len(ChunkLines) : ~ContainsQuery(i)) =>
        LET best == Max({Overlap(i) : i \in NonBlankLines})
        IN  /\ cite.line_number \in NonBlankLines
            /\ Overlap(cite.line_number) = best
            /\ cite = Trimmed(cite.line_number)
            /\ best > 0 =>
                  cite.line_number = Min({i \in NonBlankLines : Overlap(i) = best})

\* two lines tie on the largest overlap after a line of smaller overlap
C13_Witness ==
    /\ cpc = "done"
    /\ Len(ChunkLines) = 3
    /\ \A i \in 1..3 : ~ContainsQuery(i)
    /\ Overlap(1) = 1
    /\ Overlap(2) = 2
    /\ Overlap(3) = 2
    /\ cite.line_number = 2

\* C14 (as stated): when no line shares a word with the query, the first
\* non-blank line is returned with its true line number; when every line is
\* blank or the chunk is empty, line 1 with empty text.
C14_NoOverlapFirstNonBlank ==
    (cpc = "done" /\ \A i \in 1..Len(ChunkLines) : Overlap(i) = 0) =>
        IF NonBlankLines # {} THEN cite = Trimmed(Min(NonBlankLines))
        ELSE cite = Match(1, <<>>)

\* C14 (amended): when no non-blank line contains the whole query and no line
\* shares a word with it, the first non-blank line is returned with its true
\* line number; when every line is blank, line 1 with the first line of the
\* chunk as it stands, untrimmed (empty for the empty chunk).
C14_NoMatchFirstNonBlank ==
    (/\ cpc = "done"
     /\ \A i \in NonBlankLines : ~ContainsQuery(i)
     /\ \A i \in 1..Len(ChunkLines) : Overlap(i) = 0) =>
        IF NonBlankLines # {} THEN cite = Trimmed(Min(NonBlankLines))
        ELSE cite = Match(1, ChunkLines[1])

\* blank lines stand before the first non-blank line, which shares no word
C14_Witness ==
    /\ cpc = "done"
    /\ Len(ChunkLines) = 3
    /\ Blank(1) /\ Blank(2)
    /\ cite.line_number = 3
    /\ Overlap(3) = 0
    /\ ~ContainsQuery(3)

\* C15 (as stated): the line number lies in 1..max(1, number of lines) and
\* the line text is the trimmed text of exactly that line.
C15_LineOfTheChunk ==
    cpc = "done" =>
        /\ cite.line_number >= 1
        /\ cite.line_number <= Max({1, Len(ChunkLines)})
        /\ cite = Trimmed(cite.line_number)

\* C15 (amended): the line number lies in 1..max(1, number of lines); the
\* line text is the trimmed text of exactly that line, except for a chunk
\* whose every line is blank, for which it is line 1 untrimmed.
C15_LineOfTheChunkOrBlankFirst ==
    cpc = "done" =>
        /\ cite.line_number >= 1
        /\ cite.line_number <= Max({1, Len(ChunkLines)})
        /\ IF NonBlankLines # {} THEN cite = Trimmed(cite.line_number)
           ELSE cite = Match(1, ChunkLines[1])

\* a line after leading blank lines is cited with its position in the chunk
C15_Witness ==
    /\ cpc = "done"
    /\ Blank(1)
    /\ cite.line_number = 3
    /\ cite.line_text # ChunkLines[3]
    /\ cite.line_text = Strip(ChunkLines[3])

\* =========================================================================
\* Properties of the page sampler
IsRandom == select_args.strategy # NoValue
            /\ Lower(select_args.strategy) = <<"r", "a", "n", "d", "o", "m">>
Middle == (select_args.total_pages - 1) \div 2

InRange == \A k \in 1..Len(indices) : indices[k] \in 0..(select_args.total_pages - 1)

C18_EverythingElseIsLinear ==
    (spc = "done" /\ ~IsRandom) =>
        indices = [k \in 1..(IF select_args.max_pages = None THEN select_args.total_pages
                             ELSE Min({select_args.max_pages, select_args.total_pages}))
                   |-> k - 1]

C18_Witness ==
    /\ spc = "done"
    /\ select_args.strategy = <<"u", "n", "k", "n", "o", "w", "n">>
    /\ select_args.total_pages = TestPages
    /\ select_args.max_pages = TestBudget
    /\ indices = <<0, 1, 2, 3, 4>>

\* =========================================================================
\* Properties of store_document
Stored == stpc = "done" /\ store_result.error = NoError

\* C19: store_document given a non-empty pages list persists one chunk per
\* page (chunks_stored is the number of pages), each chunk with its page's
\* page_number in the metadata; a blank page is stored as "[Empty page N]"
\* with its own number N and is not skipped.
C19_OneChunkPerPage ==
    /\ (Stored /\ Len(store_args.pages) > 0) =>
          /\ store_result.chunks_stored = Len(store_args.pages)
          /\ Len(collection) = Len(store_args.pages)
          /\ \A k \in 1..Len(store_args.pages) :
                LET page == store_args.pages[k]
                IN  /\ collection[k].metadata.page_number = page.page_number
                    /\ \/ /\ \E j \in 1..Len(page.text) : page.text[j] \notin {" ", "\n"}
                          /\ collection[k].document = page.text
                       \/ /\ \A j \in 1..Len(page.text) : page.text[j] \in {" ", "\n"}
                          /\ page.page_number = 1
                          /\ collection[k].document =
                                <<"[", "E", "m", "p", "t", "y", " ", "p", "a", "g", "e", " ",
                                  "1", "]">>
                       \/ /\ \A j \in 1..Len(page.text) : page.text[j] \in {" ", "\n"}
                          /\ page.page_number = TestPages
                          /\ collection[k].document =
                                <<"[", "E", "m", "p", "t", "y", " ", "p", "a", "g", "e", " ",
                                  "1", "0", "]">>
                       \/ /\ \A j \in 1..Len(page.text) : page.text[j] \in {" ", "\n"}
                          /\ page.page_number \notin {1, TestPages}
                          /\ Len(collection[k].document) = Len(ToStr(page.page_number)) + 13
                          /\ collection[k].document # page.text
    /\ (stpc = "done" /\ store_result.error # NoError) => collection = <<>>

C19_Witness ==
    /\ Stored
    /\ Len(store_args.pages) = 2
    /\ store_args.pages[1].text = <<"a", "b">>
    /\ store_args.pages[2] = [page_number |-> TestPages, text |-> <<" ", "\n">>]
    /\ collection[2].document =
          <<"[", "E", "m", "p", "t", "y", " ", "p", "a", "g", "e", " ", "1", "0", "]">>
    /\ collection[2].metadata.page_number = TestPages

\* =========================================================================
\* Properties of batch_ingest
StatusOf(file) ==
    IF ~file.size_ok THEN "skipped"
    ELSE IF file.failed \/ Strip(file.text) = <<>> \/ ~file.storeOk THEN "failed"
    ELSE "success"

CountOf(status) == Cardinality({k \in 1..Len(pdf_files) : StatusOf(pdf_files[k]) = status})

\* the first n files, and no others, were each attempted once, in order,
\* and each has its one result
AttemptedInOrder(n) ==
    /\ Len(attempted) = n
    /\ Len(stats.results) = n
    /\ \A k \in 1..n :
          /\ attempted[k] = k
          /\ stats.results[k].filepath = k
          /\ stats.results[k].status = StatusOf(pdf_files[k])

BatchProgress ==
    /\ bpc = "scan" => AttemptedInOrder(0)
    /\ bpc = "loop" => AttemptedInOrder(file_idx - 1)
    /\ bpc = "done" =>
          /\ AttemptedInOrder(Len(pdf_files))
          /\ stats.total_files = Len(pdf_files)
          /\ stats.successful = CountOf("success")
          /\ stats.failed = CountOf("failed")
          /\ stats.skipped = CountOf("skipped")
          /\ stats.successful + stats.failed + stats.skipped = stats.total_files

\* C20: batch_ingest attempts every PDF it found exactly once, in order,
\* whatever happened to the files before it (parse error, oversize file,
\* empty text, storage error); it produces one result per file, it returns,
\* and when it returns successful + failed + skipped = total_files.
C20_EveryFileAttemptedOnce == []BatchProgress /\ <>(bpc = "done")

C20_Witness ==
    /\ bpc = "done"
    /\ pdf_files = <<ParseError, Oversize, StorageError, Good>>
    /\ attempted = <<1, 2, 3, 4>>
    /\ stats.results[4].status = "success"
    /\ stats.successful = 1
    /\ stats.failed = 2
    /\ stats.skipped = 1
    /\ stats.total_files = MaxFiles

\* =========================================================================
\* Further properties of parse_pdf

\* C24: digital text extraction is invoked exactly once on each selected
\* page and never on another page; with a budget of 5 on a 10-page document
\* linear sampling reads pages 1 to 5 only and random sampling reads pages
\* 1, 5 and 10 only.
SampledCall(name) ==
    /\ Finished
    /\ mod.PyPDF2
    /\ strategy = name
    /\ doc.kind = "ok"
    /\ Len(doc.pages) = TestPages
    /\ doc.pages[1] = "long"
    /\ max_pages = TestBudget

C24_ExtractOncePerSelectedPage ==
    /\ (pc = "done" /\ strategy = "absent") => extractLog = Selected(doc, max_pages)
    /\ SampledCall("linear") => (pc = "done" /\ extractLog = <<0, 1, 2, 3, 4>>)
    /\ SampledCall("random") => (pc = "done" /\ extractLog = <<0, 4, 9>>)

\* C30: in every successful result metadata.pages_count is the number of
\* pages of the source document, whatever max_pages is and whichever path
\* produced the pages, and so at least the number of entries of pages.
C30_PagesCountIsDocumentPages ==
    pc = "done" =>
        /\ result.pages_count = Len(doc.pages)
        /\ result.pages_count >= Len(result.pages)

\* C22: parse accepts a cancellation signal that is checked between page
\* iterations of the digital loop and of the OCR loop; once the signal is
\* raised no further page is processed and no result is returned.
C22_CancellationStopsParse ==
    [][cancelled => (/\ extractLog' = extractLog
                     /\ ocrLog' = ocrLog
                     /\ pc' # "done")]_vars

\* =========================================================================
\* Properties of _normalize_amount

\* C23: amount normalization is idempotent on every string of digits with
\* space, dot or comma separators, normalize(normalize(x)) = normalize(x),
\* and "1,000.00" and "1 000,00" both normalize to "1000.00".
C23_NormalizeIdempotent ==
    /\ Len(renormalized) = 2 => renormalized[2] = renormalized[1]
    /\ (Len(renormalized) >= 1 /\ amount_str \in TestAmounts) =>
          renormalized[1] = <<"1", "0", "0", "0", ".", "0", "0">>
    /\ \A k \in 1..Len(renormalized) :
          /\ \A j \in 1..Len(renormalized[k]) : renormalized[k][j] \in {"0", "1", "."}
          /\ Cardinality({j \in 1..Len(renormalized[k]) : renormalized[k][j] = "."}) <= 1

\* a thousands separator and a decimal comma, normalized twice
C23_Witness ==
    /\ apc = "done"
    /\ amount_str = <<"1", ".", "0", ",", "1">>
    /\ renormalized = <<<<"1", "0", ".", "1">>, <<"1", "0", ".", "1">>>>

\* =========================================================================
\* Properties of the failure log of batch_ingest
NotSucceeded(n) == {k \in 1..n : StatusOf(pdf_files[k]) # "success"}

ErrorOf(file) ==
    CASE file = Oversize       -> "File too large"
      [] file = SizeUnreadable -> "Error checking file size"
      [] file = ParseError     -> "Failed to parse PDF"
      [] file = EmptyText      -> "No text content could be extracted"
      [] file = StorageError   -> "ChromaDB storage failed"
      [] OTHER                 -> "none"

\* the log holds one entry, path and error, for each of the first n files
\* that did not succeed, in the order of the files, and nothing else
LoggedUpTo(n) ==
    /\ Len(failed_files) = Cardinality(NotSucceeded(n))
    /\ \A j \in 1..Len(failed_files) :
          /\ failed_files[j].filepath \in NotSucceeded(n)
          /\ failed_files[j].error = ErrorOf(pdf_files[failed_files[j].filepath])
          /\ j > 1 => failed_files[j - 1].filepath < failed_files[j].filepath

HasRequiredFields(response) ==
    response \in {"fields_true", "fields_false", "fields_unknown",
                  "embedded_true", "embedded_false", "embedded_unknown"}

\* a response the function takes: for classify_document any with the required
\* fields, for extract_author_title not a plain JSON answer whose author is
\* empty or unknown
Taken(response) ==
    /\ HasRequiredFields(response)
    /\ ~(llm_call.fn = "extract_author_title" /\ response = "fields_unknown")

RetryLoop(stops(_)) ==
    /\ Len(responses) <= llm_call.max_retries + 1
    /\ \A k \in 1..(Len(responses) - 1) : ~stops(responses[k])
    /\ (responses # <<>> /\ stops(responses[Len(responses)])) =>
          /\ lpc = "returned"
          /\ llm_result.reason \in {"reason of the LLM", "author and title of the LLM"}
    /\ lpc = "returned" =>
          /\ llm_result # NoAnswer
          /\ (~stops(responses[Len(responses)])) =>
                Len(responses) = llm_call.max_retries + 1
          /\ (\A k \in 1..Len(responses) : responses[k] = "transport") =>
                llm_result = [ok |-> FALSE, reason |-> "API error"]
    /\ lpc = "loop" => llm_result = NoAnswer

\* C26 (as stated): classify_document and extract_author_title send at most
\* max_retries + 1 requests, stop at the first response that parses into the
\* required fields, never raise, always end with a result record, and return
\* the failure value when every attempt fails with a transport error.
C26_StopsAtFirstResponseWithFields ==
    []RetryLoop(HasRequiredFields) /\ <>(lpc = "returned")

\* C26 (amended): the same, except that extract_author_title does not stop at
\* a JSON answer that has the fields author and title when the author or the
\* title is empty or the author is "unknown", "n/a" or "none": it retries.
C26_StopsAtFirstResponseTaken ==
    []RetryLoop(Taken) /\ <>(lpc = "returned")

C26_Witness ==
    /\ lpc = "returned"
    /\ llm_call = [fn |-> "extract_author_title", max_retries |-> DefaultRetries]
    /\ responses = <<"transport", "fields_unknown", "embedded_unknown">>
    /\ llm_result.ok

\* =========================================================================
\* Properties of process_file of the TriageService

\* classify_document returned what the LLM answered
ClassifiedByLlm == lpc = "returned" /\ llm_result.reason = "reason of the LLM"

\* C29: process_file moves a file at most once and only on a classification
\* the LLM actually returned: when classification failed, or reading or
\* parsing failed, the file stays in the source folder and its audit entry
\* has decision "error".
C29_MovedOnlyOnClassification ==
    /\ moved <= 1
    /\ file_at # "source" => ClassifiedByLlm
    /\ (trpc = "done" /\ ~ClassifiedByLlm) =>
          /\ file_at = "source"
          /\ Len(audit_log) = 1
          /\ audit_log[1].decision = "error"

\* =========================================================================
\* Properties of safe_rename_file and safe_move_file

\* the smallest k >= 1 whose name stem_k.suffix does not exist
SmallestFree ==
    LET from == IF listing.upto > 1 THEN listing.upto ELSE 1
    IN  CHOOSE k \in from..(from + MaxNames + 1) :
            /\ ~Exists(k)
            /\ \A j \in from..(k - 1) : Exists(j)

\* C27 (as stated): safe_rename_file and safe_move_file never overwrite an
\* existing file, and when the wanted name already exists the file is placed
\* under stem_k.suffix for the smallest k >= 1 whose name does not exist.
C27_PlacedUnderSmallestFreeName ==
    /\ ~clobbered
    /\ (fspc = "done" /\ Exists(0)) =>
          /\ fs_result.success
          /\ fs_result.path = SmallestFree

\* a rename to the name the file already has
OwnName == fs_call.fn = "safe_rename_file" /\ fs_call.source = 0

\* C27 (amended): neither function ever overwrites an existing file. The
\* call fails, and leaves the file where it was, exactly when the file system
\* refuses the rename or the smallest free k is not below the limit of the
\* counter (1000 for the rename, 10000 for the move). Otherwise the file is
\* placed under the wanted name when that name is free or is the file's own
\* name, and under stem_k.suffix for the smallest free k >= 1 when it exists.
C27_NeverOverwrites ==
    /\ ~clobbered
    /\ fspc = "done" =>
          LET numbered == Exists(0) /\ ~OwnName
              fails == \/ fs_call.os_fails
                       \/ numbered /\ SmallestFree >= CounterLimit(fs_call.fn)
          IN  /\ fs_result.success = ~fails
              /\ fs_result.path = IF fails THEN fs_call.source
                                  ELSE IF numbered THEN SmallestFree ELSE 0

\* with test.pdf and test_1.pdf present, renaming original.pdf to test.pdf
\* gives test_2.pdf
C27_Witness ==
    /\ fspc = "done"
    /\ fs_call = [fn |-> "safe_rename_file", source |-> None, os_fails |-> FALSE]
    /\ listing = [upto |-> 0, extra |-> {0, 1}]
    /\ fs_result = [path |-> 2, success |-> TRUE]

\* =========================================================================
\* Properties of the chunk ids of store_document

\* C28: chunk ids are unique: no two chunks of one store call get the same
\* id, and any two store calls, also two calls within the same clock second
\* on pages with the same page_number and text, produce disjoint sets of ids.
C28_ChunkIdsUnique ==
    \A i, j \in 1..Len(issued) :
        \A p \in 1..Len(issued[i]) :
            \A q \in 1..Len(issued[j]) :
                (i # j \/ p # q) => issued[i][p] # issued[j][q]

\* =========================================================================
\* Properties of concurrent invocations of parse_pdf

\* what a call returns or raises when it runs with no other invocation
RECURSIVE RunAlone(_, _)
RunAlone(p, f) ==
    LET step == ParStep(p, f)
    IN  IF step.pc \in {"done", "failed"} THEN step.out
        ELSE RunAlone(step.pc, step.f)

Alone(call) == RunAlone("open", NewFrame(call))

====
